---- MODULE Spec2Model ----
(***************************************************************************)
(* Analysis orchestration and insight enrichment of ObEx4DevOps.           *)
(*                                                                         *)
(*   ExplainabilityEngine   server/src/ai/explainability/engine.ts 7-231   *)
(*   OrchestrationService   server/src/ai/explainability/engine.ts 247-441 *)
(*                                                                         *)
(* Text is modelled by what the code can observe of it: an explanation is  *)
(* the sequence of paragraphs it was built from, and String.includes is a  *)
(* lookup of the marker in the paragraphs' literal texts.                  *)
(***************************************************************************)
EXTENDS Integers, Sequences, FiniteSets, TLC

\* ------------------------------------------------------------------------
\* Bounds of the model
\* ------------------------------------------------------------------------
MaxAgentIds == 2      \* longest options.agentIds list
MaxBatch == 2         \* longest insight list handed to enhanceExplanations
MaxLines == 2         \* most lines of a workflow document chosen freely
MaxChanges == 3       \* most document-change events the editor raises
MaxHandlers == 3      \* most event handlers of the branch listener that run
MaxRuns == 2          \* most runs of GitHubActionsWorkflowAgent.analyze on one context
MaxSwitches == 2      \* most branch switches made in the repository

\* ------------------------------------------------------------------------
\* Strings and String.prototype.includes
\* ------------------------------------------------------------------------

\* The markers the code searches for, and the raw texts (titles, analyzer
\* explanations, package names, branch names) that contain each of them.
\* includes() is case sensitive: "Deprecated ..." does not contain
\* 'deprecated', "caching" does not contain 'cache'.
TextsContaining(marker) ==
    CASE marker = "injection" ->
           { "Potential script injection vulnerability",
             "Values could be used for script injection attacks." }
      [] marker = "permission" ->
           { "Overly permissive token permissions",
             "Using write-all permissions grants broad access." }
      [] marker = "cache" ->
           { "Does not use actions/cache between runs." }
      [] marker = "checkout" ->
           { "Inefficient git checkout",
             "Uses fetch-depth: 0 with actions/checkout." }
      [] marker = "version" ->
           { "Deprecated Node.js version 12" }
      [] marker = "deprecated" ->
           { "Uses deprecated workflow commands." }
      [] marker = "Potential impact:" ->
           { "Potential impact: already stated." }
      [] marker = "Confidence:" ->
           { "Confidence: already stated." }
      [] marker = "feature" ->
           { "feature/login", "feature/release-1", "hotfix-feature" }
      [] marker = "feature/" ->
           { "feature/login", "feature/release-1" }
      [] marker = "release" ->
           { "feature/release-1", "release/1.0" }
      [] OTHER -> {}

StrIncludes(text, marker) == text \in TextsContaining(marker)

\* branch.startsWith('feature/')
StartsWithFeature(branch) == branch \in { "feature/login", "feature/release-1" }

\* ------------------------------------------------------------------------
\* Explanations: the paragraphs appended by the engine
\* ------------------------------------------------------------------------

Para(kind, a, b, n) == [kind |-> kind, a |-> a, b |-> b, n |-> n]

\* the explanation text an analyzer supplied
Original(text) == Para("original", text, "", 0)

\* Does one paragraph's literal text contain the marker?
ParaIncludes(p, marker) ==
    CASE p.kind = "original" -> StrIncludes(p.a, marker)
      [] p.kind = "project"  -> StrIncludes(p.a, marker)
      [] p.kind = "branch"   -> StrIncludes(p.b, marker)
      [] p.kind = "checkout" -> marker = "checkout"
      [] p.kind = "impact"   -> marker = "Potential impact:"
      [] p.kind = "confidence" -> marker = "Confidence:"
      [] OTHER -> FALSE

\* explanation.includes(marker): every appended paragraph starts with
\* "\n\n" and no marker contains a newline, so a match lies in one paragraph
Includes(explanation, marker) ==
    \E i \in 1..Len(explanation) : ParaIncludes(explanation[i], marker)

\* ------------------------------------------------------------------------
\* Values
\* ------------------------------------------------------------------------

Levels == { "micro", "meso", "macro" }
Severities == { "high", "medium", "low" }

Has(r, f) == f \in DOMAIN r

\* the JavaScript value null / undefined
NullValue == [isNull |-> TRUE]
IsNull(v) == Has(v, "isNull")

\* An Insight (shared/src/types/insights.ts 36-51).  A field that is absent
\* at run time is absent from the record.
MkInsight(id, title, text, level, severity, confidence, category) ==
    [ id |-> id, title |-> title, summary |-> "summary",
      explanation |-> << Original(text) >>,
      level |-> level, severity |-> severity, confidence |-> confidence,
      category |-> category, fixable |-> FALSE,
      location |-> [file |-> "ci.yml", line |-> 1],
      recommendations |-> << "first recommendation", "second recommendation" >>,
      evidence |-> << [type |-> "code", description |-> "first evidence"],
                      [type |-> "pattern", description |-> "second evidence"] >>,
      createdAt |-> "t0", updatedAt |-> "t0" ]

\* the same insight without its title property
WithoutTitle(insight) ==
    [f \in DOMAIN insight \ {"title"} |-> insight[f]]

\* ------------------------------------------------------------------------
\* ExplainabilityEngine
\* ------------------------------------------------------------------------

\* The two objects enhanceInsight works with: the caller's insight and the
\* copy it enhances.  They are distinct objects (engine.ts 28), which
\* `aliased` records; `threw` is set once an exception is raised inside the
\* try block, after which no further statement of the block runs.
CopyInsightAliased(insight) ==
    [original |-> insight, enhanced |-> insight, aliased |-> TRUE, threw |-> FALSE]

\* const enhanced: Insight = { ...insight };
CopyInsight(insight) ==
    [original |-> insight, enhanced |-> insight, aliased |-> FALSE, threw |-> FALSE]

Throw(st) == [st EXCEPT !.threw = TRUE]

\* insight.explanation += paragraph   (on the object `enhanced`)
AppendExplanation(st, p) ==
    IF st.threw THEN st
    ELSE IF st.aliased
         THEN [st EXCEPT !.enhanced.explanation = Append(@, p),
                         !.original.explanation = Append(@, p)]
         ELSE [st EXCEPT !.enhanced.explanation = Append(@, p)]

\* switch (insight.severity) { case 'high' | 'medium' | 'low': append }
SeverityParagraph(st, categoryKind) ==
    IF st.threw THEN st
    ELSE IF st.enhanced.severity \in Severities
         THEN AppendExplanation(st, Para("severity", categoryKind, st.enhanced.severity, 0))
         ELSE st

\* insight.title.includes(marker): a TypeError when title is undefined
TitleIncludes(st, marker) == StrIncludes(st.enhanced.title, marker)

enhanceSecurityInsight(st) ==
    LET s1 == SeverityParagraph(st, "Security") IN
    IF s1.threw THEN s1
    ELSE IF ~Has(s1.enhanced, "title") THEN Throw(s1)
    ELSE IF TitleIncludes(s1, "injection") \/ Includes(s1.enhanced.explanation, "injection")
         THEN AppendExplanation(s1, Para("owasp", "", "", 0))
    ELSE IF TitleIncludes(s1, "permission") \/ Includes(s1.enhanced.explanation, "permission")
         THEN AppendExplanation(s1, Para("leastPrivilege", "", "", 0))
    ELSE s1

enhanceEfficiencyInsight(st) ==
    LET s1 == SeverityParagraph(st, "Efficiency") IN
    IF s1.threw THEN s1
    ELSE IF ~Has(s1.enhanced, "title") THEN Throw(s1)
    ELSE IF TitleIncludes(s1, "cache") \/ Includes(s1.enhanced.explanation, "cache")
         THEN AppendExplanation(s1, Para("caching", "", "", 0))
    ELSE IF TitleIncludes(s1, "checkout") \/ Includes(s1.enhanced.explanation, "checkout")
         THEN AppendExplanation(s1, Para("checkout", "", "", 0))
    ELSE s1

enhanceMaintenanceInsight(st) ==
    LET s1 == SeverityParagraph(st, "Maintenance") IN
    IF s1.threw THEN s1
    ELSE IF ~Has(s1.enhanced, "title") THEN Throw(s1)
    ELSE IF TitleIncludes(s1, "version") \/ TitleIncludes(s1, "deprecated")
         THEN AppendExplanation(s1, Para("upToDate", "", "", 0))
    ELSE s1

enhanceGeneralInsight(st) == SeverityParagraph(st, "General")

\* the project-name sentence (engine.ts 166-171)
ProjectSentence(st, context) ==
    IF /\ Has(context.git, "github") /\ context.git.github
       /\ Has(context, "workspace")
       /\ Has(context.workspace, "package")
       /\ Has(context.workspace.package, "name")
    THEN AppendExplanation(st, Para("project", context.workspace.package.name, "", 0))
    ELSE st

\* a branch sentence that tests for a release branch before a feature branch
BranchSentenceReleaseFirst(st, context) ==
    IF st.threw \/ ~Has(context.git, "branch") THEN st
    ELSE LET b == context.git.branch IN
         IF Has(b, "str") /\ b.str \in {"main", "master"}
         THEN AppendExplanation(st, Para("branch", "main", b.str, 0))
         ELSE IF ~Has(b, "str") THEN Throw(st)
         ELSE IF StrIncludes(b.str, "release")
         THEN AppendExplanation(st, Para("branch", "release", b.str, 0))
         ELSE IF StartsWithFeature(b.str) \/ StrIncludes(b.str, "feature")
         THEN AppendExplanation(st, Para("branch", "feature", b.str, 0))
         ELSE st

\* the branch sentence (engine.ts 174-184); a branch that is no string has
\* no startsWith method
BranchSentence(st, context) ==
    IF st.threw \/ ~Has(context.git, "branch") THEN st
    ELSE LET b == context.git.branch IN
         IF Has(b, "str") /\ b.str \in {"main", "master"}
         THEN AppendExplanation(st, Para("branch", "main", b.str, 0))
         ELSE IF ~Has(b, "str") THEN Throw(st)
         ELSE IF StartsWithFeature(b.str) \/ StrIncludes(b.str, "feature")
         THEN AppendExplanation(st, Para("branch", "feature", b.str, 0))
         ELSE IF StrIncludes(b.str, "release")
         THEN AppendExplanation(st, Para("branch", "release", b.str, 0))
         ELSE st

\* switch (insight.level)
LevelSentence(st) ==
    IF st.threw THEN st
    ELSE IF st.enhanced.level \in Levels
         THEN AppendExplanation(st, Para("level", st.enhanced.level, "", 0))
         ELSE st

addContextualRelevance(st, context) ==
    IF st.threw THEN st
    ELSE IF IsNull(context) THEN Throw(st)
    ELSE IF Has(context, "git") /\ context.git.available
         THEN LevelSentence(BranchSentence(ProjectSentence(st, context), context))
         ELSE LevelSentence(st)

SeverityWord(severity) ==
    IF severity = "high" THEN "high"
    ELSE IF severity = "medium" THEN "medium" ELSE "low"

generateImpactExplanation(insight) ==
    IF Has(insight, "category")
       /\ insight.category \in {"Security", "Efficiency", "Maintenance"}
    THEN Para("impact", insight.category, SeverityWord(insight.severity), 0)
    ELSE Para("impact", "General", "", 0)

generateConfidenceExplanation(insight) ==
    Para("confidence", "", "", insight.confidence)

\* an impact paragraph appended whatever the explanation contains
ImpactStepUnguarded(st) ==
    IF st.threw THEN st
    ELSE AppendExplanation(st, generateImpactExplanation(st.enhanced))

ImpactStep(st) ==
    IF st.threw THEN st
    ELSE IF ~Includes(st.enhanced.explanation, "Potential impact:")
         THEN AppendExplanation(st, generateImpactExplanation(st.enhanced))
         ELSE st

\* a confidence paragraph reserved for confidence above 95
ConfidenceStepAbove95(st) ==
    IF st.threw THEN st
    ELSE IF st.enhanced.confidence > 95 /\ ~Includes(st.enhanced.explanation, "Confidence:")
         THEN AppendExplanation(st, generateConfidenceExplanation(st.enhanced))
         ELSE st

\* a confidence paragraph from confidence 90 on
ConfidenceStepFrom90(st) ==
    IF st.threw THEN st
    ELSE IF st.enhanced.confidence >= 90 /\ ~Includes(st.enhanced.explanation, "Confidence:")
         THEN AppendExplanation(st, generateConfidenceExplanation(st.enhanced))
         ELSE st

ConfidenceStep(st) ==
    IF st.threw THEN st
    ELSE IF st.enhanced.confidence > 90 /\ ~Includes(st.enhanced.explanation, "Confidence:")
         THEN AppendExplanation(st, generateConfidenceExplanation(st.enhanced))
         ELSE st

CategoryStep(st) ==
    LET category == IF Has(st.original, "category") THEN st.original.category ELSE "" IN
    CASE category = "Security"    -> enhanceSecurityInsight(st)
      [] category = "Efficiency"  -> enhanceEfficiencyInsight(st)
      [] category = "Maintenance" -> enhanceMaintenanceInsight(st)
      [] OTHER                    -> enhanceGeneralInsight(st)

\* a catch block that returns the object it was enhancing
enhanceInsightReturnsEnhanced(insight, context) ==
    LET st == ConfidenceStep(ImpactStep(
                addContextualRelevance(CategoryStep(CopyInsight(insight)), context)))
    IN [ returned |-> st.enhanced, original |-> st.original, threw |-> st.threw ]

\* the confidence paragraph appended before the impact paragraph
enhanceInsightConfidenceFirst(insight, context) ==
    LET st == ImpactStep(ConfidenceStep(
                addContextualRelevance(CategoryStep(CopyInsight(insight)), context)))
    IN [ returned |-> IF st.threw THEN st.original ELSE st.enhanced,
         original |-> st.original,
         threw    |-> st.threw ]

\* enhanceInsight: `returned` is the value of the promise, `original` the
\* caller's insight object as it is after the call.
enhanceInsight(insight, context) ==
    LET st == ConfidenceStep(ImpactStep(
                addContextualRelevance(CategoryStep(CopyInsight(insight)), context)))
    IN [ returned |-> IF st.threw THEN st.original ELSE st.enhanced,
         original |-> st.original,
         threw    |-> st.threw ]

\* a list collected last insight first
enhanceExplanationsReversed(insights, context) ==
    LET n == Len(insights) IN
    [ returned  |-> [i \in 1..n |-> enhanceInsight(insights[n + 1 - i], context).returned],
      originals |-> [i \in 1..n |-> enhanceInsight(insights[i], context).original] ]

\* enhanceExplanations: Promise.all over insights.map(enhanceInsight); no
\* enhanceInsight promise rejects, so the list is always produced.
enhanceExplanations(insights, context) ==
    [ returned  |-> [i \in 1..Len(insights) |-> enhanceInsight(insights[i], context).returned],
      originals |-> [i \in 1..Len(insights) |-> enhanceInsight(insights[i], context).original] ]

\* ------------------------------------------------------------------------
\* OrchestrationService: registry and analyzer selection
\* ------------------------------------------------------------------------

\* The analyzer classes the constructor names (engine.ts 256-266) and the
\* ids it registers them under.
GitHubActions == "GitHubActionsWorkflowAgent"
CodeImpact == "CodeImpactAgent"
AgentClasses == { GitHubActions, CodeImpact }
Registrations == { <<"githubActions", GitHubActions>>, <<"codeImpact", CodeImpact>> }
AgentIds == { r[1] : r \in Registrations }

\* agent.constructor.name
ConstructorName(agent) == agent

\* the agentName an analyzer puts in its own result (githubActions.ts 8)
OwnName(agent) ==
    IF agent = GitHubActions THEN "GitHub Actions Workflow Analysis Agent"
    ELSE "Code Impact Analysis Agent"

\* Map<string, Agent>: the entries in insertion order
MapHas(m, id) == \E i \in 1..Len(m) : m[i].id = id
MapGet(m, id) == (CHOOSE e \in { m[i] : i \in 1..Len(m) } : e.id = id).agent
MapSet(m, id, agent) ==
    IF MapHas(m, id)
    THEN [i \in 1..Len(m) |-> IF m[i].id = id THEN [id |-> id, agent |-> agent] ELSE m[i]]
    ELSE Append(m, [id |-> id, agent |-> agent])
MapDelete(m, id) == SelectSeq(m, LAMBDA e : e.id # id)
MapKeys(m) == [i \in 1..Len(m) |-> m[i].id]
MapValues(m) == [i \in 1..Len(m) |-> m[i].agent]

\* a selection test that takes an empty list as a list
AgentIdsGivenAnyLength(options) == Has(options, "agentIds")

\* options.agentIds && options.agentIds.length > 0   (engine.ts 308)
AgentIdsGiven(options) == Has(options, "agentIds") /\ Len(options.agentIds) > 0

\* agentsToUse   (engine.ts 305-321)
SelectAgents(m, options) ==
    IF AgentIdsGiven(options)
    THEN LET found == SelectSeq(options.agentIds, LAMBDA id : MapHas(m, id))
         IN  [i \in 1..Len(found) |-> MapGet(m, found[i])]
    ELSE MapValues(m)

\* ------------------------------------------------------------------------
\* OrchestrationService.analyze: what an analyzer's promise can do
\* ------------------------------------------------------------------------

Str(s) == [str |-> s]

Permissive == MkInsight("overly-permissive-token", "Overly permissive token permissions",
                "Using write-all permissions grants broad access.",
                "meso", "high", 95, "Security")
MissingCache == MkInsight("missing-cache", "Missing dependency caching",
                "Does not use actions/cache between runs.",
                "meso", "medium", 80, "Efficiency")
ChangedApi == MkInsight("changed-api", "Changed public function",
                "Plain finding.", "micro", "medium", 90, "Impact")
Untitled == WithoutTitle(MkInsight("untitled", "", "Plain finding.",
                "micro", "low", 95, "Security"))

\* the insight lists an analyzer resolves with
AnalyzerOutputs ==
    { << >>, << Permissive, MissingCache >>, << ChangedApi, Permissive, Untitled, MissingCache >> }

\* How agent.analyze(context) ends.  GitHubActionsWorkflowAgent.analyze is an
\* async function: it resolves, or rejects with the Error a statement of it
\* threw.  Another implementation of Agent may reject with any value and may
\* resolve with any value.
Outcomes(agent) ==
    { [kind |-> "resolve", insights |-> l] : l \in AnalyzerOutputs }
    \cup { [kind |-> "reject", reason |-> "Error"] }
    \cup IF agent = GitHubActions THEN {}
         ELSE { [kind |-> "reject", reason |-> "string"],
                [kind |-> "reject", reason |-> "undefined"],
                [kind |-> "resolveWithoutInsights"] }

Pending == [state |-> "pending"]
Fulfilled(v) == [state |-> "fulfilled", value |-> v]
Rejected == [state |-> "rejected"]

\* the .catch handler (engine.ts 326-333): error.message is the message of
\* an Error, undefined for a string, and a TypeError for undefined or null
CatchHandler(agent, reason) ==
    CASE reason = "Error" ->
           Fulfilled([agentName |-> ConstructorName(agent), insights |-> << >>,
                      error |-> Str("boom")])
      [] reason = "string" ->
           Fulfilled([agentName |-> ConstructorName(agent), insights |-> << >>,
                      error |-> NullValue])
      [] OTHER -> Rejected

\* the promise agent.analyze(context).catch(...) once the analyzer ended
Settle(agent, outcome) ==
    CASE outcome.kind = "resolve" ->
           Fulfilled([agentName |-> OwnName(agent), insights |-> outcome.insights])
      [] outcome.kind = "resolveWithoutInsights" ->
           Fulfilled([agentName |-> OwnName(agent)])
      [] OTHER -> CatchHandler(agent, outcome.reason)

\* Promise.all: fulfilled once every promise is, with the values in the
\* order of the promises; rejected as soon as one promise is
SomeFulfilled(ps) == \E i \in 1..Len(ps) : ps[i].state = "fulfilled"
AllFulfilled(ps) == \A i \in 1..Len(ps) : ps[i].state = "fulfilled"
AnyRejected(ps) == \E i \in 1..Len(ps) : ps[i].state = "rejected"
ValueOf(p) == IF Has(p, "value") THEN p.value ELSE NullValue
ValuesReversed(ps) == [i \in 1..Len(ps) |-> ValueOf(ps[Len(ps) + 1 - i])]
Values(ps) == [i \in 1..Len(ps) |-> ValueOf(ps[i])]

\* ------------------------------------------------------------------------
\* State
\* ------------------------------------------------------------------------

VARIABLES
    agents,            \* OrchestrationService.agents, in insertion order
    pc,                \* where the analyze pass is
    options,           \* the options of the pass
    context,           \* the context of the pass
    agentsToUse,       \* the analyzers selected for the pass
    analysisPromises,  \* agent.analyze(context).catch(...), one per analyzer;
                       \* a fulfilled promise keeps the value it settled with
    results,           \* the AnalysisResult list of the pass
    cursor,            \* the result the enrichment loop is at
    callPc,            \* where a direct enhanceExplanations call is
    callContext,       \* its context argument
    givenInsights,     \* its insights argument, as passed
    callerInsights,    \* the same insight objects, as they are now
    enhancedInsights,  \* the list the call returned
    reEnhancedInsights, \* the list a second call, on the returned list, returned
    agentContext,      \* the context GitHubActionsWorkflowAgent.analyze is run on
    clock,             \* what new Date() returns
    runs,              \* the promise of each run of the analyzer so far
    httpPc,            \* where the controller is with the request
    request,           \* the POST request: endpoint and body
    response,          \* what was sent back: status and json
    coreCalls,         \* the orchestrationService.analyze calls of the request
    time,              \* the time, in ms
    debounceTimer,     \* CodeChangeListener.debounceTimer: a timer handle, 0 for null
    timers,            \* the timers set and neither fired nor cleared
    editCallbacks,     \* the debounce callbacks that ran, each where it is
    editDisposed,      \* CodeChangeListener.dispose has been called
    changes,           \* the supported document-change events so far, by time
    currentBranch,     \* BranchOperationListener.currentBranch
    head,              \* the branch the repository is on
    handlers,          \* the event handlers of the branch listener so far
    branchRequests,    \* the onBranchChanged calls that requested an analysis
    switches           \* the branch switches made in the repository

orchVars == << agents, pc, options, context, agentsToUse, analysisPromises, results, cursor >>
callVars == << callPc, callContext, givenInsights, callerInsights, enhancedInsights,
              reEnhancedInsights >>
agentVars == << agentContext, clock, runs >>
httpVars == << httpPc, request, response, coreCalls >>
editVars == << time, debounceTimer, timers, editCallbacks, editDisposed, changes >>
branchVars == << currentBranch, head, handlers, branchRequests, switches >>
listenerVars == << editVars, branchVars >>
vars == << agents, pc, options, context, agentsToUse, analysisPromises, results, cursor,
           callPc, callContext, givenInsights, callerInsights, enhancedInsights,
           reEnhancedInsights, agentContext, clock, runs,
           httpPc, request, response, coreCalls,
           time, debounceTimer, timers, editCallbacks, editDisposed, changes,
           currentBranch, head, handlers, branchRequests, switches >>

\* ------------------------------------------------------------------------
\* Inputs
\* ------------------------------------------------------------------------

AgentIdLists == UNION { [1..n -> AgentIds] : n \in 0..MaxAgentIds }
LevelOptions == { "micro", "macro" }
ConfidenceOptions == { 0, 90 }

\* an options object with the given properties
MkOptions(fields, agentIds, level, minConfidence) ==
    [f \in fields |->
        CASE f = "agentIds" -> agentIds
          [] f = "level" -> level
          [] OTHER -> minConfidence]

NoOptions == MkOptions({}, << >>, "", 0)

MainContext ==
    [ timestamp |-> "t1",
      git |-> [available |-> TRUE, github |-> TRUE, branch |-> Str("main")],
      workspace |-> [package |-> [name |-> "obex-server"]] ]

\* ------------------------------------------------------------------------
\* Registry operations
\* ------------------------------------------------------------------------

\* constructor (engine.ts 251-268)
InitOrchestrator ==
    /\ agents = MapSet(<< >>, "githubActions", GitHubActions)
    /\ pc = "idle"
    /\ options = NoOptions
    /\ context = NullValue
    /\ agentsToUse = << >>
    /\ analysisPromises = << >>
    /\ results = << >>
    /\ cursor = 0

registerAgent(id, agent) ==
    /\ agents' = MapSet(agents, id, agent)
    /\ UNCHANGED << pc, options, context, agentsToUse, analysisPromises, results, cursor >>
    /\ UNCHANGED << callVars, agentVars, httpVars, listenerVars >>

\* a removal that also withdraws the analyzer from a pass in flight
removeAgentFromPass(id) ==
    /\ agents' = MapDelete(agents, id)
    /\ LET kept == { i \in 1..Len(agentsToUse) :
                       ~(MapHas(agents, id) /\ agentsToUse[i] = MapGet(agents, id)) }
           Keep(s) == IF Len(s) = Len(agentsToUse)
                      THEN SelectSeq([i \in 1..Len(s) |-> [at |-> i, v |-> s[i]]],
                                     LAMBDA e : e.at \in kept)
                      ELSE << >>
       IN  /\ agentsToUse' = [i \in 1..Len(Keep(agentsToUse)) |-> Keep(agentsToUse)[i].v]
           /\ analysisPromises' =
                 [i \in 1..Len(Keep(analysisPromises)) |-> Keep(analysisPromises)[i].v]
    /\ UNCHANGED << pc, options, context, results, cursor >>
    /\ UNCHANGED << callVars, agentVars, httpVars, listenerVars >>

removeAgent(id) ==
    /\ agents' = MapDelete(agents, id)
    /\ UNCHANGED << pc, options, context, agentsToUse, analysisPromises, results, cursor >>
    /\ UNCHANGED << callVars, agentVars, httpVars, listenerVars >>

getRegisteredAgents == MapKeys(agents)

\* ------------------------------------------------------------------------
\* OrchestrationService.analyze
\* ------------------------------------------------------------------------

KeepLevelNoFilter(rs, opts) == rs

\* result.insights = result.insights.filter(i => i.level === options.level)
KeepLevel(rs, opts) ==
    IF Has(opts, "level")
    THEN [i \in 1..Len(rs) |->
            [rs[i] EXCEPT !.insights = SelectSeq(@, LAMBDA x : x.level = opts.level)]]
    ELSE rs

KeepConfidentStrict(rs, opts) ==
    IF Has(opts, "minConfidence")
    THEN [i \in 1..Len(rs) |->
            [rs[i] EXCEPT !.insights = SelectSeq(@, LAMBDA x : x.confidence > opts.minConfidence)]]
    ELSE rs

\* result.insights = result.insights.filter(i => i.confidence >= options.minConfidence)
KeepConfident(rs, opts) ==
    IF Has(opts, "minConfidence")
    THEN [i \in 1..Len(rs) |->
            [rs[i] EXCEPT !.insights = SelectSeq(@, LAMBDA x : x.confidence >= opts.minConfidence)]]
    ELSE rs

\* a value that is no object with an insights list: reading its
\* insights.filter or insights.length is a TypeError
NoInsightList(r) == ~Has(r, "insights")

FiltersThrow(rs, opts) ==
    /\ Has(opts, "level") \/ Has(opts, "minConfidence")
    /\ \E i \in 1..Len(rs) : NoInsightList(rs[i])

\* the enrichment loop (engine.ts 353-357) from result `from` on: the first
\* result it has to stop at, one to enrich or one that makes it throw
NextStop(rs, from) ==
    LET stops == { j \in from..Len(rs) : NoInsightList(rs[j]) \/ Len(rs[j].insights) > 0 }
    IN  IF stops = {} THEN 0 ELSE CHOOSE j \in stops : \A k \in stops : j <= k

\* run the loop to its next await, to its return or to the statement that throws
Advance(rs, from) ==
    LET stop == NextStop(rs, from) IN
    /\ results' = rs
    /\ IF stop = 0 THEN pc' = "done" /\ cursor' = 0
       ELSE IF NoInsightList(rs[stop]) THEN pc' = "rejected" /\ cursor' = 0
       ELSE pc' = "enriching" /\ cursor' = stop

\* analyze up to `await Promise.all(analysisPromises)`: the selection and
\* the call of every selected analyzer.  An analyze that is no async
\* function can throw inside the map, which ends the pass.
Start(opts, ctx, throws) ==
    /\ pc = "idle"
    /\ LET sel == SelectAgents(agents, opts) IN
       /\ throws => \E i \in 1..Len(sel) : sel[i] # GitHubActions
       /\ options' = opts
       /\ context' = ctx
       /\ agentsToUse' = sel
       /\ results' = << >>
       /\ cursor' = 0
       /\ IF throws
          THEN pc' = "rejected" /\ analysisPromises' = << >>
          ELSE pc' = "awaiting" /\ analysisPromises' = [i \in 1..Len(sel) |-> Pending]
    /\ UNCHANGED agents
    /\ UNCHANGED << callVars, agentVars, httpVars, listenerVars >>

\* one analyzer's promise settles
AgentSettles(i, outcome) ==
    /\ pc = "awaiting"
    /\ i \in 1..Len(analysisPromises)
    /\ analysisPromises[i].state = "pending"
    /\ outcome \in Outcomes(agentsToUse[i])
    /\ analysisPromises' = [analysisPromises EXCEPT ![i] = Settle(agentsToUse[i], outcome)]
    /\ UNCHANGED << agents, pc, options, context, agentsToUse, results, cursor >>
    /\ UNCHANGED << callVars, agentVars, httpVars, listenerVars >>

\* Promise.all rejected: the await throws and the pass rejects
JoinRejected ==
    /\ pc = "awaiting"
    /\ AnyRejected(analysisPromises)
    /\ pc' = "rejected"
    /\ UNCHANGED << agents, options, context, agentsToUse, analysisPromises, results, cursor >>
    /\ UNCHANGED << callVars, agentVars, httpVars, listenerVars >>

\* Promise.all fulfilled: the pass resumes with the filters and runs to the
\* first await of the enrichment loop
Join ==
    /\ pc = "awaiting"
    /\ ~AnyRejected(analysisPromises)
    /\ AllFulfilled(analysisPromises)
    /\ LET rs == Values(analysisPromises) IN
       IF FiltersThrow(rs, options)
       THEN pc' = "rejected" /\ results' = rs /\ cursor' = 0
       ELSE Advance(KeepConfident(KeepLevel(rs, options), options), 1)
    /\ UNCHANGED << agents, options, context, agentsToUse, analysisPromises >>
    /\ UNCHANGED << callVars, agentVars, httpVars, listenerVars >>

\* result.insights = await enhanceExplanations(result.insights, context),
\* then on to the next await or to the return
Enrich ==
    /\ pc = "enriching"
    /\ LET enriched == enhanceExplanations(results[cursor].insights, context).returned
       IN  Advance([results EXCEPT ![cursor].insights = enriched], cursor + 1)
    /\ UNCHANGED << agents, options, context, agentsToUse, analysisPromises >>
    /\ UNCHANGED << callVars, agentVars, httpVars, listenerVars >>

\* ------------------------------------------------------------------------
\* A direct call of ExplainabilityEngine.enhanceExplanations
\* ------------------------------------------------------------------------

EnhanceExplanationsCall ==
    /\ callPc = "called"
    /\ LET r == enhanceExplanations(callerInsights, callContext) IN
       /\ enhancedInsights' = r.returned
       /\ callerInsights' = r.originals
    /\ callPc' = "returned"
    /\ UNCHANGED << callContext, givenInsights, reEnhancedInsights >>
    /\ UNCHANGED << orchVars, agentVars, httpVars, listenerVars >>

\* the caller hands the list it got back to enhanceExplanations once more,
\* with the same context
EnhanceExplanationsAgain ==
    /\ callPc = "returned"
    /\ LET r == enhanceExplanations(enhancedInsights, callContext) IN
       /\ reEnhancedInsights' = r.returned
       /\ enhancedInsights' = r.originals
    /\ callPc' = "returnedAgain"
    /\ UNCHANGED << callContext, givenInsights, callerInsights >>
    /\ UNCHANGED << orchVars, agentVars, httpVars, listenerVars >>

NoCall ==
    /\ callPc = "off"
    /\ callContext = NullValue
    /\ givenInsights = << >>
    /\ callerInsights = << >>
    /\ enhancedInsights = << >>
    /\ reEnhancedInsights = << >>

\* the analyzer has not been run on its own
NoRun ==
    /\ agentContext = NullValue
    /\ clock = 1
    /\ runs = << >>

\* no request has reached the controller
NoRequest ==
    /\ httpPc = "off"
    /\ request = NullValue
    /\ response = NullValue
    /\ coreCalls = << >>

\* no listener of the editor extension has been constructed
NoListeners ==
    /\ time = 0
    /\ debounceTimer = 0
    /\ timers = {}
    /\ editCallbacks = << >>
    /\ editDisposed = FALSE
    /\ changes = << >>
    /\ currentBranch = NullValue
    /\ head = NullValue
    /\ handlers = << >>
    /\ branchRequests = << >>
    /\ switches = 0

\* ------------------------------------------------------------------------
\* Specifications
\* ------------------------------------------------------------------------

Init == InitOrchestrator /\ NoCall /\ NoRun /\ NoRequest /\ NoListeners

Next ==
    \/ \E r \in Registrations : registerAgent(r[1], r[2])
    \/ \E id \in AgentIds : removeAgent(id)
    \/ \E fields \in SUBSET { "agentIds", "level", "minConfidence" },
          ids \in AgentIdLists, level \in LevelOptions, c \in ConfidenceOptions,
          throws \in BOOLEAN :
            Start(MkOptions(fields, ids, level, c), MainContext, throws)
    \/ \E i \in 1..MaxAgentIds, outcome \in Outcomes(CodeImpact) : AgentSettles(i, outcome)
    \/ JoinRejected
    \/ Join
    \/ Enrich

Spec == Init /\ [][Next]_vars

\* ------------------------------------------------------------------------
\* The engine called on its own: every batch of at most MaxBatch insights
\* and every context of EngineContexts
\* ------------------------------------------------------------------------

ScriptInjection == MkInsight("script-injection", "Potential script injection vulnerability",
                "Values could be used for script injection attacks.",
                "meso", "high", 85, "Security")
Checkout == MkInsight("inefficient-checkout", "Inefficient git checkout",
                "Uses fetch-depth: 0 with actions/checkout.",
                "meso", "low", 85, "Efficiency")
DeprecatedNode == MkInsight("deprecated-node-12", "Deprecated Node.js version 12",
                "Plain finding.", "meso", "medium", 95, "Maintenance")
StatedImpact == MkInsight("stated-impact", "Unused variable",
                "Potential impact: already stated.", "macro", "low", 95, "Security")
StatedConfidence == MkInsight("stated-confidence", "Unused variable",
                "Confidence: already stated.", "micro", "high", 95, "Quality")
UntitledQuality == WithoutTitle(MkInsight("untitled-quality", "", "Plain finding.",
                "macro", "medium", 91, "Quality"))
UntitledCache == WithoutTitle(MkInsight("untitled-cache", "",
                "Does not use actions/cache between runs.",
                "meso", "medium", 80, "Efficiency"))

EngineInsights ==
    { Permissive, MissingCache, ChangedApi, Untitled, ScriptInjection, Checkout,
      DeprecatedNode, StatedImpact, StatedConfidence, UntitledQuality, UntitledCache }

GitContext(github, branch) ==
    [ timestamp |-> "t1",
      git |-> [available |-> TRUE, github |-> github, branch |-> branch],
      workspace |-> [package |-> [name |-> "obex-server"]] ]

EngineContexts ==
    { NullValue,
      [timestamp |-> "t1"],
      [timestamp |-> "t1", git |-> [available |-> FALSE, branch |-> Str("main")]],
      [timestamp |-> "t1", git |-> [available |-> TRUE, github |-> TRUE]],
      MainContext,
      GitContext(FALSE, Str("master")),
      GitContext(FALSE, Str("feature/release-1")),
      GitContext(TRUE, Str("hotfix-feature")),
      GitContext(FALSE, Str("release/1.0")),
      GitContext(FALSE, Str("develop")),
      GitContext(TRUE, [num |-> 42]) }

Batches == UNION { [1..n -> EngineInsights] : n \in 0..MaxBatch }

InitEngine ==
    /\ InitOrchestrator
    /\ callPc = "called"
    /\ callContext \in EngineContexts
    /\ givenInsights \in Batches
    /\ callerInsights = givenInsights
    /\ enhancedInsights = << >>
    /\ reEnhancedInsights = << >>
    /\ NoRun
    /\ NoRequest
    /\ NoListeners

NextEngine ==
    \/ EnhanceExplanationsCall
    \/ EnhanceExplanationsAgain

SpecEngine == InitEngine /\ [][NextEngine]_vars

\* ------------------------------------------------------------------------
\* Properties
\* ------------------------------------------------------------------------

Range(seq) == { seq[i] : i \in 1..Len(seq) }
Ids(insights) == [i \in 1..Len(insights) |-> insights[i].id]

\* equal in every property but explanation
SameButExplanation(a, b) ==
    /\ DOMAIN a = DOMAIN b
    /\ \A f \in DOMAIN a \ {"explanation"} : a[f] = b[f]

IsPrefix(p, q) ==
    /\ Len(p) <= Len(q)
    /\ \A i \in 1..Len(p) : p[i] = q[i]

\* the step of a pass that selects the analyzers
SelectionStep == pc = "idle" /\ pc' # "idle"

\* the analyzers registered, before the step, under the ids of a list
RegisteredUnder(ids) ==
    { agents[k].agent : k \in { j \in 1..Len(agents) : agents[j].id \in Range(ids) } }

\* the number of entries of a list of ids that are registered
RegisteredCount(ids) ==
    Cardinality({ k \in 1..Len(ids) : \E j \in 1..Len(agents) : agents[j].id = ids[k] })

\* result i of a finished pass is the result of the i-th selected analyzer
ResultsOfSelected ==
    pc = "done" =>
        /\ Len(results) = Len(agentsToUse)
        /\ \A i \in 1..Len(results) :
              results[i].agentName \in { OwnName(agentsToUse[i]), ConstructorName(agentsToUse[i]) }

\* the selection the claim states for a list of ids
SelectsOnlyRequested ==
    /\ agentsToUse' \in Seq(RegisteredUnder(options'.agentIds))
    /\ Len(agentsToUse') = RegisteredCount(options'.agentIds)

\* C1, as stated: whatever list agentIds is, the empty one included, only
\* analyzers registered under its ids are selected, and each of its entries
\* contributes a result if and only if it is registered.
C1_AnyList ==
    [][SelectionStep /\ Has(options', "agentIds") => SelectsOnlyRequested]_vars

\* C1, amended: for a non-empty agentIds list every result comes from an
\* analyzer registered under one of its ids, an unregistered id contributes
\* no result and no failure (a pass that selected no analyzer never
\* rejects); an empty list selects every registered analyzer.
C1_NonEmptyList ==
    /\ [][SelectionStep /\ Has(options', "agentIds") =>
            IF Len(options'.agentIds) > 0
            THEN SelectsOnlyRequested
            ELSE agentsToUse' = [i \in 1..Len(agents) |-> agents[i].agent]]_vars
    /\ [](ResultsOfSelected /\ (pc = "rejected" => agentsToUse # << >>))

\* a pass that was asked for an unregistered id next to a registered one
\* returned the one result
C1_Witness ==
    /\ pc = "done"
    /\ Has(options, "agentIds")
    /\ Len(options.agentIds) = 2
    /\ Len(results) = 1
    /\ Len(results[1].insights) > 0

\* what the filters of the pass leave of an analyzer's insights
Kept(insights) ==
    SelectSeq(insights, LAMBDA x :
        /\ Has(options, "level") => x.level = options.level
        /\ Has(options, "minConfidence") => x.confidence >= options.minConfidence)

\* result i carries the insights promise i was fulfilled with, filtered,
\* each changed in its explanation at most
InsightsIntact(i) ==
    LET produced == Kept(analysisPromises[i].value.insights) IN
    /\ Len(results[i].insights) = Len(produced)
    /\ \A k \in 1..Len(produced) : SameButExplanation(results[i].insights[k], produced[k])

\* an analyzer of the pass that resolved with a value without insight list
SomeResultWithoutInsights ==
    \E i \in 1..Len(analysisPromises) :
        /\ analysisPromises[i].state = "fulfilled"
        /\ NoInsightList(analysisPromises[i].value)

\* C2: a failing analyzer (one that raises, or rejects with whatever value)
\* does not keep the pass from returning, and the pass returns the insights
\* of every other analyzer intact.
C2_FailureIsolation ==
    /\ pc = "rejected" => SomeResultWithoutInsights
    /\ pc = "done" => \A i \in 1..Len(results) : InsightsIntact(i)

\* C3: analyze has no fatal outcome: no pass ends rejected.
C3_NeverRejects == pc # "rejected"

\* C4: once the pass has filtered or enriched anything, or returned, no
\* selected analyzer is still pending: every promise of the fan-out was
\* fulfilled, by the analyzer or by the failure fallback.
C4_Barrier ==
    (pc \in { "enriching", "done" } \/ results # << >>) =>
        /\ Len(analysisPromises) = Len(agentsToUse)
        /\ \A i \in 1..Len(analysisPromises) : analysisPromises[i].state = "fulfilled"

\* a pass of two analyzers, one failed and one with insights, is past the join
C4_Witness ==
    /\ pc = "enriching"
    /\ Len(agentsToUse) = 2
    /\ \E i \in 1..2 : Has(results[i], "error")
    /\ \E i \in 1..2 : Len(results[i].insights) > 0

C6_ConfidenceFilter ==
    (pc = "done" /\ Has(options, "minConfidence")) =>
        /\ \A i \in 1..Len(results) :
              /\ \A k \in 1..Len(results[i].insights) :
                    results[i].insights[k].confidence >= options.minConfidence
              /\ Ids(results[i].insights) =
                 Ids(SelectSeq(analysisPromises[i].value.insights, LAMBDA x :
                        /\ x.confidence >= options.minConfidence
                        /\ Has(options, "level") => x.level = options.level))
        /\ LET rs == Values(analysisPromises) IN
           KeepConfident(KeepLevel(rs, options), options)
             = KeepLevel(KeepConfident(rs, options), options)

\* both filters set, an insight of confidence exactly C returned and
\* another one dropped
C6_Witness ==
    /\ pc = "done"
    /\ Has(options, "level") /\ Has(options, "minConfidence")
    /\ \E i \in 1..Len(results) :
          /\ \E k \in 1..Len(results[i].insights) :
                results[i].insights[k].confidence = options.minConfidence
          /\ Len(results[i].insights) < Len(analysisPromises[i].value.insights)

\* the analyzers the claim expects for a list of ids: its registered
\* entries, in the order of the list
RECURSIVE Requested(_)
Requested(ids) ==
    IF ids = << >> THEN << >>
    ELSE LET here == { agents[j].agent : j \in { k \in 1..Len(agents) : agents[k].id = Head(ids) } }
         IN  (IF here = {} THEN << >> ELSE << CHOOSE a \in here : TRUE >>)
             \o Requested(Tail(ids))

\* C7: the results are those of the selected analyzers, one each and in
\* the order of the selection: the order of the agentIds list restricted to
\* the registered ids, or the insertion order of the registry without a list.
C7_ResultOrder ==
    /\ [][SelectionStep =>
            /\ (Has(options', "agentIds") /\ Len(options'.agentIds) > 0)
                  => agentsToUse' = Requested(options'.agentIds)
            /\ ~Has(options', "agentIds")
                  => agentsToUse' = [i \in 1..Len(agents) |-> agents[i].agent]]_vars
    /\ [](pc = "done" =>
            /\ Len(results) = Len(agentsToUse)
            /\ \A i \in 1..Len(results) :
                  /\ results[i].agentName
                       \in { OwnName(agentsToUse[i]), ConstructorName(agentsToUse[i]) }
                  /\ results[i].agentName = analysisPromises[i].value.agentName
                  /\ Has(results[i], "error") = Has(analysisPromises[i].value, "error")
                  /\ InsightsIntact(i))

\* two different analyzers, selected against the order of the registry, the
\* first failed and the second returned insights
C7_Witness ==
    /\ pc = "done"
    /\ Len(agentsToUse) = 2
    /\ agentsToUse[1] # agentsToUse[2]
    /\ agentsToUse[1] # agents[1].agent
    /\ Has(results[1], "error")
    /\ Len(results[2].insights) > 0

\* C8: enhanceExplanations returns as many insights as it was given, in
\* the same order, each equal to the given one in every property but
\* explanation, recommendations and evidence included.
C8_OtherFieldsKept ==
    callPc = "returned" =>
        /\ Len(enhancedInsights) = Len(givenInsights)
        /\ \A i \in 1..Len(givenInsights) :
              /\ SameButExplanation(enhancedInsights[i], givenInsights[i])
              /\ enhancedInsights[i].recommendations = givenInsights[i].recommendations
              /\ enhancedInsights[i].evidence = givenInsights[i].evidence

\* a batch of two different insights was returned, both with a longer explanation
C8_Witness ==
    /\ callPc = "returned"
    /\ Len(givenInsights) = 2
    /\ givenInsights[1].id # givenInsights[2].id
    /\ \A i \in 1..2 : Len(enhancedInsights[i].explanation) > Len(givenInsights[i].explanation)

\* C9: after enhanceExplanations the insight objects it was given are as
\* they were passed.
C9_InputsNotModified ==
    callPc = "returned" => callerInsights = givenInsights

\* a call returned an insight with appended paragraphs
C9_Witness ==
    /\ callPc = "returned"
    /\ \E i \in 1..Len(givenInsights) :
          /\ enhancedInsights[i].explanation # givenInsights[i].explanation
          /\ callerInsights[i].explanation = givenInsights[i].explanation

\* the enrichment of one insight raises an exception
Raises(insight) == enhanceInsight(insight, callContext).threw

\* C10: an insight whose enrichment raises is returned as it was given,
\* with the explanation as supplied, in its position; every other insight of
\* the batch is enriched as it is on its own.
C10_FailureIsolated ==
    callPc = "returned" =>
        /\ Len(enhancedInsights) = Len(givenInsights)
        /\ \A i \in 1..Len(givenInsights) :
              IF Raises(givenInsights[i])
              THEN enhancedInsights[i] = givenInsights[i]
              ELSE /\ IsPrefix(givenInsights[i].explanation, enhancedInsights[i].explanation)
                   /\ Len(enhancedInsights[i].explanation) > Len(givenInsights[i].explanation)
                   /\ Includes(enhancedInsights[i].explanation, "Potential impact:")
                   /\ << enhancedInsights[i] >>
                        = enhanceExplanations(<< givenInsights[i] >>, callContext).returned

\* a batch in which the enrichment of one insight raised, after a paragraph
\* had been appended, and that of the other did not
C10_Witness ==
    /\ callPc = "returned"
    /\ Len(givenInsights) = 2
    /\ Raises(givenInsights[1])
    /\ Has(givenInsights[1], "category") /\ givenInsights[1].category = "Security"
    /\ ~Raises(givenInsights[2])
    /\ enhancedInsights[1] = givenInsights[1]
    /\ enhancedInsights[2] # givenInsights[2]

\* the number of paragraphs of an explanation whose text contains the
\* marker; no paragraph contains a marker twice
Count(explanation, marker) ==
    Cardinality({ i \in 1..Len(explanation) : ParaIncludes(explanation[i], marker) })

\* an insight the confidence paragraph is meant for, whose explanation as
\* supplied contains neither marker
ConfidentAndUnmarked(insight) ==
    /\ insight.confidence > 90
    /\ ~Includes(insight.explanation, "Potential impact:")
    /\ ~Includes(insight.explanation, "Confidence:")

Appended(before, after) == SubSeq(after, Len(before) + 1, Len(after))

\* the severity paragraph and the contextual-relevance sentences among
\* some paragraphs, in their order
SeverityAndContext(paragraphs) ==
    SelectSeq(paragraphs, LAMBDA p : p.kind \in { "severity", "project", "branch", "level" })

\* the keyword paragraphs a category method appends after the severity one
KeywordKinds == { "owasp", "leastPrivilege", "caching", "checkout", "upToDate" }

\* C12: a second enrichment of an enriched insight appends no further
\* "Potential impact:" and no further "Confidence:" paragraph, but appends
\* the category/severity paragraph and the contextual-relevance sentences
\* once more, so the result is the enriched explanation followed by the
\* paragraphs of steps 1 and 2 only, and it differs from the first result.
C12_SecondPass ==
    callPc = "returnedAgain" =>
        /\ Len(reEnhancedInsights) = Len(givenInsights)
        /\ \A i \in 1..Len(givenInsights) :
              LET given  == givenInsights[i].explanation
                  first  == enhancedInsights[i].explanation
                  second == reEnhancedInsights[i].explanation
              IN  IF Raises(givenInsights[i])
                  THEN reEnhancedInsights[i] = givenInsights[i]
                  ELSE /\ IsPrefix(first, second)
                       /\ Len(second) > Len(first)
                       /\ Count(second, "Potential impact:") = Count(first, "Potential impact:")
                       /\ Count(second, "Confidence:") = Count(first, "Confidence:")
                       /\ \A j \in Len(first) + 1..Len(second) :
                              second[j].kind \in { "severity", "project", "branch", "level" }
                                                  \cup KeywordKinds
                       /\ SeverityAndContext(Appended(first, second))
                            = SeverityAndContext(Appended(given, first))
                       /\ SameButExplanation(reEnhancedInsights[i], enhancedInsights[i])

\* an insight that got the impact and the confidence paragraph in the first
\* pass and a branch sentence in each pass
C12_Witness ==
    /\ callPc = "returnedAgain"
    /\ Len(givenInsights) >= 1
    /\ ~Raises(givenInsights[1])
    /\ givenInsights[1].confidence > 90
    /\ Count(enhancedInsights[1].explanation, "Confidence:") = 1
    /\ Count(reEnhancedInsights[1].explanation, "Potential impact:") = 1
    /\ Len(SelectSeq(reEnhancedInsights[1].explanation, LAMBDA p : p.kind = "branch")) = 2
    /\ Len(SelectSeq(reEnhancedInsights[1].explanation, LAMBDA p : p.kind = "severity")) = 2

\* ------------------------------------------------------------------------
\* Workflow text, as GitHubActionsWorkflowAgent reads it
\*
\* workflow.content is a sequence of lines (content.split('\n')); a line is
\* a sequence of tokens, each token a piece of text that no pattern of the
\* analyzer splits: a blank is a token of its own, "@" is one, a version is
\* one.  What a token contains is given by the tables below.
\* ------------------------------------------------------------------------

NL == "\n"
Sha == "8f4b7f84864484a7bf31766abe9204da3cbe65b3"

\* \s
IsSpace(t) == t \in { " ", NL }

\* the tokens that begin with "$"; no other token contains one
StartsWithDollar(t) ==
    t \in { "${{ github.event.issue.title }}", "${{ github.event.pull_request.body }}",
            "${{ github.event.number }}", "${{ matrix.ref }}" }

\* actionName.startsWith('actions/')
StartsWithActions(t) == t \in { "actions/checkout", "actions/cache", "actions/setup-node" }

\* token.includes(needle), for the needles the analyzer searches for
TokenIncludes(t, needle) ==
    \/ t = needle
    \/ << t, needle >> \in
         { << "pnpm install", "npm install" >>,
           << "npm ci --prefer-offline", "npm ci" >>,
           << "contents: write-all", "write-all" >>,
           << "${{ github.event.issue.title }}", "github.event" >>,
           << "${{ github.event.pull_request.body }}", "github.event" >>,
           << "${{ github.event.number }}", "github.event" >>,
           << "echo ::set-output name=v::1", "::set-output" >>,
           << "echo ::set-env name=v::1", "::set-env" >>,
           << "# actions/cache is not used", "actions/cache" >> }

\* the number of characters of a token
Width(t) ==
    CASE t \in { " ", NL, "@", "#" } -> 1
      [] t \in { "v1", "v3" } -> 2
      [] t \in { "'8'", "if:" } -> 3
      [] t \in { "'12'", "\"16\"", "'18'", "run:", "# v1", "echo" } -> 4
      [] t \in { "uses:", "build" } -> 5
      [] t \in { "npm ci" } -> 6
      [] t \in { "- name:", "./local" } -> 7
      [] t \in { "write-all" } -> 9
      [] t \in { "acme/build" } -> 10
      [] t \in { "npm install" } -> 11
      [] t \in { "permissions:", "pnpm install" } -> 12
      [] t \in { "node-version:", "actions/cache" } -> 13
      [] t \in { "fetch-depth: 0" } -> 14
      [] t \in { "${{ matrix.ref }}" } -> 17
      [] t \in { "actions/checkout" } -> 16
      [] t \in { "actions/setup-node" } -> 18
      [] t \in { "contents: write-all" } -> 19
      [] t \in { "npm ci --prefer-offline" } -> 23
      [] t \in { "echo ::set-env name=v::1" } -> 24
      [] t \in { "${{ github.event.number }}" } -> 26
      [] t \in { "echo ::set-output name=v::1", "# actions/cache is not used" } -> 27
      [] t \in { "${{ github.event.issue.title }}" } -> 31
      [] t \in { "${{ github.event.pull_request.body }}" } -> 37
      [] t = Sha -> 40
      [] OTHER -> 1

RECURSIVE TextWidth(_)
TextWidth(tokens) ==
    IF tokens = << >> THEN 0
    ELSE IF Len(tokens) = 1 THEN Width(tokens[1])
    ELSE LET half == Len(tokens) \div 2 IN
         TextWidth(SubSeq(tokens, 1, half)) + TextWidth(SubSeq(tokens, half + 1, Len(tokens)))

\* lines.join('\n'): the content as one run of tokens
RECURSIVE Flat(_)
Flat(lines) ==
    IF lines = << >> THEN << >>
    ELSE IF Len(lines) = 1 THEN lines[1]
    ELSE lines[1] \o << NL >> \o Flat(Tail(lines))

\* line.includes(needle), the needle a run of tokens
LineIncludes(line, needle) ==
    \E i \in 1..Len(line) :
        /\ i + Len(needle) - 1 <= Len(line)
        /\ \A k \in 1..Len(needle) : TokenIncludes(line[i + k - 1], needle[k])

\* content.includes(needle) for a needle without a line break
ContentIncludes(lines, needle) == \E i \in 1..Len(lines) : LineIncludes(lines[i], needle)

\* getLineNumber (githubActions.ts 449-462): the 1-based number of the first
\* line that includes the text, 1 when none does
getLineNumber(lines, needle) ==
    IF \E i \in 1..Len(lines) : LineIncludes(lines[i], needle)
    THEN CHOOSE i \in 1..Len(lines) :
            /\ LineIncludes(lines[i], needle)
            /\ \A j \in 1..(i - 1) : ~LineIncludes(lines[j], needle)
    ELSE 1

\* ------------------------------------------------------------------------
\* GitHubActionsWorkflowAgent: the rules
\* ------------------------------------------------------------------------

\* private name (githubActions.ts 8)
AgentName == "GitHub Actions Workflow Analysis Agent"

\* an id that carries the time of the run
FindingIdWithTime(workflow, rule, fact, now) ==
    [analyzer |-> "github-actions-workflow", workflow |-> workflow.name,
     rule |-> rule, fact |-> fact, at |-> now]

\* The id template `github-actions-workflow-${workflow.name}-<rule>[-<fact>]`,
\* kept as its parts.
FindingId(workflow, rule, fact, now) ==
    [analyzer |-> "github-actions-workflow", workflow |-> workflow.name,
     rule |-> rule, fact |-> fact]

\* an insight whose confidence is lowered by the count it states
FindingScoredByCount(workflow, rule, fact, version, n, severity, confidence, category, fixable, location, now) ==
    [ id          |-> FindingId(workflow, rule, fact, now),
      title       |-> [rule |-> rule, workflow |-> workflow.name, fact |-> fact],
      summary     |-> [rule |-> rule, workflow |-> workflow.name, fact |-> fact, n |-> n],
      explanation |-> << Para(rule, "", "", n) >>,
      level       |-> "meso",
      severity    |-> severity,
      confidence  |-> confidence - n,
      category    |-> category,
      location    |-> location,
      fixable     |-> fixable,
      recommendations |-> [rule |-> rule, fact |-> fact, version |-> version],
      evidence    |-> << [type |-> IF rule = "excessive-steps" THEN "Metric" ELSE "Pattern Match",
                          rule |-> rule, fact |-> fact, version |-> version, n |-> n,
                          source |-> workflow.path],
                         [type |-> "Best Practice", rule |-> rule] >>,
      createdAt   |-> now,
      updatedAt   |-> now ]

\* An insight of the analyzer.  Title, summary, recommendations and evidence
\* are the rule's texts with the values interpolated into them; n is the
\* step count where a text states one and 0 elsewhere.
Finding(workflow, rule, fact, version, n, severity, confidence, category, fixable, location, now) ==
    [ id          |-> FindingId(workflow, rule, fact, now),
      title       |-> [rule |-> rule, workflow |-> workflow.name, fact |-> fact],
      summary     |-> [rule |-> rule, workflow |-> workflow.name, fact |-> fact, n |-> n],
      explanation |-> << Para(rule, "", "", n) >>,
      level       |-> "meso",
      severity    |-> severity,
      confidence  |-> confidence,
      category    |-> category,
      location    |-> location,
      fixable     |-> fixable,
      recommendations |-> [rule |-> rule, fact |-> fact, version |-> version],
      evidence    |-> << [type |-> IF rule = "excessive-steps" THEN "Metric" ELSE "Pattern Match",
                          rule |-> rule, fact |-> fact, version |-> version, n |-> n,
                          source |-> workflow.path],
                         [type |-> "Best Practice", rule |-> rule] >>,
      createdAt   |-> now,
      updatedAt   |-> now ]

\* the first position after i that holds a token of the set, 0 when none
FirstAfter(text, i, stops) ==
    IF \E j \in (i + 1)..Len(text) : stops[text[j]]
    THEN CHOOSE j \in (i + 1)..Len(text) :
            /\ stops[text[j]]
            /\ \A k \in (i + 1)..(j - 1) : ~stops[text[k]]
    ELSE 0

RECURSIVE LeadingSpaces(_)
LeadingSpaces(tokens) ==
    IF tokens = << >> \/ ~IsSpace(Head(tokens)) THEN 0
    ELSE 1 + LeadingSpaces(Tail(tokens))

NoMatch == [found |-> FALSE]

\* /uses:\s+([^@]+)@([^$\n]+)/ tried at a "uses:" at position i.  The name
\* runs to the first "@" after it, across line breaks; \s+ leaves it at
\* least one character; the version runs to the end of the line or to a "$".
UsesMatchAt(text, i) ==
    LET at == FirstAfter(text, i, [t \in Range(text) |-> t = "@"]) IN
    IF at = 0 \/ at - i < 3 \/ ~IsSpace(text[i + 1]) THEN NoMatch
    ELSE LET between == SubSeq(text, i + 1, at - 1)
             spaces  == LeadingSpaces(between)
             first   == IF spaces = Len(between) THEN spaces ELSE spaces + 1
             stop    == FirstAfter(text, at,
                            [t \in Range(text) |-> t = NL \/ StartsWithDollar(t)])
             last    == IF stop = 0 THEN Len(text) ELSE stop - 1
         IN  IF last = at THEN NoMatch
             ELSE [ found   |-> TRUE,
                    index   |-> TextWidth(SubSeq(text, 1, i - 1)),
                    last    |-> last,
                    all     |-> SubSeq(text, i, last),
                    name    |-> SubSeq(between, first, Len(between)),
                    version |-> SubSeq(text, at + 1, last) ]

\* the position of the first token `start` at or after `from`, 0 when none
NextStart(text, from, start) ==
    FirstAfter(text, from - 1, [t \in Range(text) |-> t = start])

\* the successive thirdPartyActionRegex.exec(content) calls: leftmost match
\* first, the next search after its end
RECURSIVE UsesMatches(_, _)
UsesMatches(text, from) ==
    LET i == NextStart(text, from, "uses:") IN
    IF i = 0 THEN << >>
    ELSE LET m == UsesMatchAt(text, i) IN
         IF m.found THEN << m >> \o UsesMatches(text, m.last + 1)
         ELSE UsesMatches(text, i + 1)

\* actionVersion.match(/^[0-9a-f]{40}$/)
IsFortyHex(version) == version = << Sha >>

\* not a GitHub-owned action and not pinned to a SHA (githubActions.ts 71, 76)
IsUnpinned(m) == ~StartsWithActions(m.name[1]) /\ ~IsFortyHex(m.version)

\* checkSecurityIssues (githubActions.ts 59-193)
checkSecurityIssues(workflow, now) ==
    LET content == workflow.content
        unpinned ==
            LET kept == SelectSeq(UsesMatches(Flat(content), 1), IsUnpinned) IN
            [i \in 1..Len(kept) |->
                Finding(workflow, "unpinned-action", kept[i].name, kept[i].version, 0,
                        "medium", 90, "Security", TRUE,
                        [file |-> workflow.path,
                         line |-> getLineNumber(content, kept[i].all),
                         column |-> kept[i].index], now)]
        permissive ==
            IF ContentIncludes(content, << "permissions:" >>)
               /\ ContentIncludes(content, << "write-all" >>)
            THEN << Finding(workflow, "overly-permissive-token", << >>, << >>, 0,
                            "high", 95, "Security", TRUE,
                            [file |-> workflow.path,
                             line |-> getLineNumber(content, << "write-all" >>)], now) >>
            ELSE << >>
        injection ==
            IF \/ ContentIncludes(content, << "${{ github.event.issue.title }}" >>)
               \/ ContentIncludes(content, << "${{ github.event.issue.body }}" >>)
               \/ ContentIncludes(content, << "${{ github.event.pull_request.title }}" >>)
               \/ ContentIncludes(content, << "${{ github.event.pull_request.body }}" >>)
            THEN << Finding(workflow, "script-injection", << >>, << >>, 0,
                            "high", 85, "Security", FALSE,
                            [file |-> workflow.path,
                             line |-> getLineNumber(content, << "github.event" >>)], now) >>
            ELSE << >>
    IN unpinned \o permissive \o injection

\* (content.match(/\s+- name: /g) || []).length: a marker counts when a
\* blank or a line break stands before it that no earlier match has taken
RECURSIVE CountSteps(_, _)
CountSteps(text, from) ==
    LET IsMatch(k) == /\ text[k] = "- name:"
                      /\ k + 1 <= Len(text) /\ text[k + 1] = " "
                      /\ k - 1 >= from /\ IsSpace(text[k - 1])
    IN  IF \E k \in (from + 1)..Len(text) : IsMatch(k)
        THEN LET k == CHOOSE k \in (from + 1)..Len(text) :
                         IsMatch(k) /\ \A j \in (from + 1)..(k - 1) : ~IsMatch(j)
             IN 1 + CountSteps(text, k + 2)
        ELSE 0

\* a rule that takes a cache reference for an install command
MissingCacheAppliesWithCache(content) ==
    \/ ContentIncludes(content, << "npm ci" >>)
    \/ ContentIncludes(content, << "npm install" >>)
    \/ ContentIncludes(content, << "actions/cache" >>)

\* the condition of the missing-cache rule (githubActions.ts 202-203)
MissingCacheApplies(content) ==
    /\ \/ ContentIncludes(content, << "npm ci" >>)
       \/ ContentIncludes(content, << "npm install" >>)
    /\ ~ContentIncludes(content, << "actions/cache" >>)

\* a threshold that 20 steps reach
ExcessiveStepsFrom20(buildSteps) == buildSteps >= 20

\* if (buildSteps > 20)
ExcessiveSteps(buildSteps) == buildSteps > 20

\* `a || b` of two line numbers: getLineNumber never returns 0
OrElse(a, b) == IF a # 0 THEN a ELSE b

\* checkEfficiencyIssues (githubActions.ts 198-317)
checkEfficiencyIssues(workflow, now) ==
    LET content == workflow.content
        missingCache ==
            IF MissingCacheApplies(content)
            THEN << Finding(workflow, "missing-cache", << >>, << >>, 0,
                            "medium", 80, "Efficiency", TRUE,
                            [file |-> workflow.path,
                             line |-> OrElse(getLineNumber(content, << "npm ci" >>),
                                             getLineNumber(content, << "npm install" >>))],
                            now) >>
            ELSE << >>
        checkout ==
            IF ContentIncludes(content, << "actions/checkout", "@" >>)
               /\ ContentIncludes(content, << "fetch-depth: 0" >>)
            THEN << Finding(workflow, "inefficient-checkout", << >>, << >>, 0,
                            "low", 85, "Efficiency", TRUE,
                            [file |-> workflow.path,
                             line |-> getLineNumber(content, << "fetch-depth: 0" >>)], now) >>
            ELSE << >>
        buildSteps == CountSteps(Flat(content), 1)
        excessive ==
            IF ExcessiveSteps(buildSteps)
            THEN << Finding(workflow, "excessive-steps", << >>, << >>, buildSteps,
                            "low", 70, "Efficiency", FALSE,
                            [file |-> workflow.path, line |-> 1], now) >>
            ELSE << >>
    IN missingCache \o checkout \o excessive

\* the version inside a quoted token that /['"](8|10|12|14|16)['"]/ matches
DeprecatedNodeVersion(t) ==
    CASE t = "'8'" -> "8"
      [] t = "'12'" -> "12"
      [] t = "\"16\"" -> "16"
      [] OTHER -> ""

\* /node-version:\s*['"](8|10|12|14|16)['"]/ tried at position i
NodeMatchAt(text, i) ==
    LET j == i + 1 + LeadingSpaces(SubSeq(text, i + 1, Len(text))) IN
    IF j <= Len(text) /\ DeprecatedNodeVersion(text[j]) # ""
    THEN [found |-> TRUE, last |-> j, all |-> SubSeq(text, i, j),
          nodeVersion |-> DeprecatedNodeVersion(text[j])]
    ELSE NoMatch

\* /uses:\s+actions\/checkout@v1|uses:\s+actions\/setup-node@v1/ tried at
\* position i
ActionMatchAt(text, i) ==
    LET spaces == LeadingSpaces(SubSeq(text, i + 1, Len(text)))
        j == i + 1 + spaces
    IN  IF /\ spaces >= 1
           /\ j + 2 <= Len(text)
           /\ text[j] \in { "actions/checkout", "actions/setup-node" }
           /\ text[j + 1] = "@"
           /\ text[j + 2] = "v1"
        THEN [found |-> TRUE, last |-> j + 2, all |-> SubSeq(text, i, j + 2)]
        ELSE NoMatch

\* the successive nodeVersionRegex.exec(content) calls
RECURSIVE NodeMatches(_, _)
NodeMatches(text, from) ==
    LET i == NextStart(text, from, "node-version:") IN
    IF i = 0 THEN << >>
    ELSE LET m == NodeMatchAt(text, i) IN
         IF m.found THEN << m >> \o NodeMatches(text, m.last + 1)
         ELSE NodeMatches(text, i + 1)

\* the successive deprecatedActionsRegex.exec(content) calls
RECURSIVE ActionMatches(_, _)
ActionMatches(text, from) ==
    LET i == NextStart(text, from, "uses:") IN
    IF i = 0 THEN << >>
    ELSE LET m == ActionMatchAt(text, i) IN
         IF m.found THEN << m >> \o ActionMatches(text, m.last + 1)
         ELSE ActionMatches(text, i + 1)

\* checkSyntaxIssues (githubActions.ts 322-444)
checkSyntaxIssues(workflow, now) ==
    LET content == workflow.content
        node ==
            LET matches == NodeMatches(Flat(content), 1) IN
            [i \in 1..Len(matches) |->
                Finding(workflow, "deprecated-node", << matches[i].nodeVersion >>, << >>, 0,
                        "medium", 95, "Maintenance", TRUE,
                        [file |-> workflow.path,
                         line |-> getLineNumber(content, matches[i].all)], now)]
        commands ==
            IF \/ ContentIncludes(content, << "::set-output" >>)
               \/ ContentIncludes(content, << "::set-env" >>)
            THEN << Finding(workflow, "deprecated-workflow-commands", << >>, << >>, 0,
                            "medium", 95, "Maintenance", TRUE,
                            [file |-> workflow.path,
                             line |-> OrElse(getLineNumber(content, << "::set-output" >>),
                                             getLineNumber(content, << "::set-env" >>))],
                            now) >>
            ELSE << >>
        actions ==
            LET matches == ActionMatches(Flat(content), 1) IN
            [i \in 1..Len(matches) |->
                Finding(workflow, "deprecated-action", matches[i].all, << >>, 0,
                        "low", 90, "Maintenance", TRUE,
                        [file |-> workflow.path,
                         line |-> getLineNumber(content, matches[i].all)], now)]
    IN node \o commands \o actions

\* analyzeWorkflow (githubActions.ts 39-54)
analyzeWorkflow(workflow, now) ==
    checkSecurityIssues(workflow, now) \o checkEfficiencyIssues(workflow, now)
        \o checkSyntaxIssues(workflow, now)

RECURSIVE AllInsights(_, _)
AllInsights(workflows, now) ==
    IF workflows = << >> THEN << >>
    ELSE analyzeWorkflow(Head(workflows), now) \o AllInsights(Tail(workflows), now)

\* GitHubActionsWorkflowAgent.analyze (githubActions.ts 13-34), as the
\* promise it returns.  Reading a property of a missing object, iterating
\* a missing list and calling includes on a missing content raise a
\* TypeError, which rejects the promise of the async method.
analyze(ctx, now) ==
    IF IsNull(ctx) THEN Rejected
    ELSE IF ~Has(ctx, "githubActions")
            \/ ~Has(ctx.githubActions, "available") \/ ~ctx.githubActions.available
    THEN Fulfilled([agentName |-> AgentName, insights |-> << >>])
    ELSE IF ~Has(ctx.githubActions, "workflows") THEN Rejected
    ELSE LET workflows == ctx.githubActions.workflows IN
         IF \E i \in 1..Len(workflows) : ~Has(workflows[i], "content") THEN Rejected
         ELSE Fulfilled([agentName |-> AgentName, insights |-> AllInsights(workflows, now)])

\* ------------------------------------------------------------------------
\* GitHubActionsWorkflowAgent run on its own: every document of Documents,
\* alone or next to a second one, and the contexts that lack data
\* ------------------------------------------------------------------------

StepLine == << " ", " ", "- name:", " ", "build" >>

WorkflowLines ==
    { << " ", "uses:", " ", "acme/build", "@", Sha >>,
      << "uses:", " ", "acme/build", "@", Sha, " ", "# v1" >>,
      << "uses:", " ", "acme/build", "@", "v1" >>,
      << "uses:", " ", "acme/build", "@", "${{ matrix.ref }}" >>,
      << "uses:", " ", "./local" >>,
      << "uses:", " ", "actions/checkout", "@", "v3" >>,
      << "uses:", " ", " ", "actions/checkout", "@", "v1" >>,
      << "uses:", " ", "actions/cache", "@", "v3" >>,
      << "# actions/cache is not used" >>,
      << "permissions:", " ", "write-all" >>,
      << "permissions:" >>,
      << "run:", " ", "npm ci" >>,
      << "run:", " ", "npm install" >>,
      << "fetch-depth: 0" >>,
      << "node-version:", " ", "'12'" >>,
      << "node-version:", " ", "'18'" >>,
      << "run:", " ", "echo ::set-output name=v::1" >>,
      << "run:", " ", "echo ::set-env name=v::1" >>,
      << "run:", " ", "echo", " ", "${{ github.event.issue.title }}" >>,
      << "if:", " ", "${{ github.event.number }}" >>,
      StepLine }

\* a document of n step lines
Steps(n) == [i \in 1..n |-> StepLine]

\* the step counts around the threshold of the excessive-steps rule
StepCounts == { 20, 25 }

Documents ==
    UNION { [1..n -> WorkflowLines] : n \in 0..MaxLines }
      \cup { Steps(n) \o tail : n \in StepCounts,
                                tail \in UNION { [1..k -> WorkflowLines] : k \in 0..1 } }

Workflow(name, content) ==
    [name |-> name, path |-> ".github/workflows/ci.yml", content |-> content]

\* the documents that stand next to a second workflow
PairedDocuments ==
    { << << "uses:", " ", "acme/build", "@", "v1" >> >>,
      << << "run:", " ", "npm ci" >>, << "node-version:", " ", "'12'" >> >> }

WithWorkflows(workflows) ==
    [timestamp |-> "t1", githubActions |-> [available |-> TRUE, workflows |-> workflows]]

AgentContexts ==
    { [timestamp |-> "t1"],
      [timestamp |-> "t1", githubActions |-> [workflows |-> << Workflow("ci", Steps(1)) >>]],
      [timestamp |-> "t1", githubActions |-> [available |-> FALSE]],
      [timestamp |-> "t1", githubActions |-> [available |-> TRUE]],
      WithWorkflows(<< [name |-> "ci", path |-> ".github/workflows/ci.yml"] >>),
      WithWorkflows(<< >>) }
      \cup { WithWorkflows(<< Workflow("ci", d) >>) : d \in Documents }
      \cup { WithWorkflows(<< Workflow("ci", d1), Workflow(name, d2) >>) :
                d1 \in PairedDocuments, d2 \in PairedDocuments, name \in { "ci", "release" } }

InitAgent ==
    /\ InitOrchestrator
    /\ NoCall
    /\ NoRequest
    /\ NoListeners
    /\ agentContext \in AgentContexts
    /\ clock = 1
    /\ runs = << >>

\* one run of the analyzer on the context, at the time the clock shows
Analyze ==
    /\ Len(runs) < MaxRuns
    /\ runs' = Append(runs, analyze(agentContext, clock))
    /\ clock' = clock + 1
    /\ UNCHANGED agentContext
    /\ UNCHANGED << orchVars, callVars, httpVars, listenerVars >>

NextAgent == Analyze

SpecAgent == InitAgent /\ [][NextAgent]_vars

\* ------------------------------------------------------------------------
\* Properties of GitHubActionsWorkflowAgent
\* ------------------------------------------------------------------------

\* the workflow documents the analyzer iterates over, none when it returns
\* early or has no list
ContextWorkflows ==
    IF /\ ~IsNull(agentContext)
       /\ Has(agentContext, "githubActions")
       /\ Has(agentContext.githubActions, "available")
       /\ agentContext.githubActions.available
       /\ Has(agentContext.githubActions, "workflows")
    THEN agentContext.githubActions.workflows
    ELSE << >>

\* the runs that returned a result
Returned == { i \in 1..Len(runs) : runs[i].state = "fulfilled" }

InsightsOf(i) == runs[i].value.insights

\* the insights of one rule, in the order emitted
OfRule(insights, rule) == SelectSeq(insights, LAMBDA x : x.id.rule = rule)

\* C13: two runs of the analyzer on the same workflow documents emit the
\* same sequence of insight ids, although they run at different times: an id
\* consists of the analyzer prefix, the workflow name, the rule and the
\* matched fact, and of nothing else.
C13_SameIds ==
    /\ \A i, j \in 1..Len(runs) :
          /\ runs[i].state = runs[j].state
          /\ runs[i].state = "fulfilled" => Ids(InsightsOf(i)) = Ids(InsightsOf(j))
    /\ \A i \in Returned : \A k \in 1..Len(InsightsOf(i)) :
          LET id == InsightsOf(i)[k].id IN
          /\ DOMAIN id = { "analyzer", "workflow", "rule", "fact" }
          /\ id.analyzer = "github-actions-workflow"
          /\ \E w \in 1..Len(ContextWorkflows) : id.workflow = ContextWorkflows[w].name

\* two runs at different times that emitted several insights each
C13_Witness ==
    /\ Len(runs) = 2
    /\ Returned = { 1, 2 }
    /\ Len(InsightsOf(1)) >= 3
    /\ InsightsOf(1)[1].createdAt # InsightsOf(2)[1].createdAt
    /\ Ids(InsightsOf(1)) = Ids(InsightsOf(2))

\* the context lacks data the analyzer reads
DataAbsent ==
    \/ ~Has(agentContext, "githubActions")
    \/ ~Has(agentContext.githubActions, "available")
    \/ ~agentContext.githubActions.available
    \/ ~Has(agentContext.githubActions, "workflows")
    \/ \E w \in 1..Len(agentContext.githubActions.workflows) :
          ~Has(agentContext.githubActions.workflows[w], "content")

\* C14 as stated: whenever githubActions, githubActions.available,
\* githubActions.workflows or a workflow's content is absent, analyze returns
\* a result with an empty insight list and does not fail.
C14_EmptyWhenDataAbsent ==
    (~IsNull(agentContext) /\ DataAbsent) =>
        \A i \in 1..Len(runs) :
            runs[i] = Fulfilled([agentName |-> AgentName, insights |-> << >>])

\* the number of lines of a document that include the text
LinesWith(content, needle) ==
    Cardinality({ i \in 1..Len(content) : LineIncludes(content[i], needle) })

\* the same, over the documents of a list of workflows
RECURSIVE LinesWithIn(_, _)
LinesWithIn(workflows, needle) ==
    IF workflows = << >> THEN 0
    ELSE LinesWith(Head(workflows).content, needle) + LinesWithIn(Tail(workflows), needle)

\* the workflows of the context all have a content
AllHaveContent == \A w \in 1..Len(ContextWorkflows) : Has(ContextWorkflows[w], "content")

\* the unpinned-action insights of a run that come from a reference to
\* acme/build with the given ref
FlaggedRefs(i, ref) ==
    SelectSeq(OfRule(InsightsOf(i), "unpinned-action"),
              LAMBDA x : /\ x.id.fact[Len(x.id.fact)] = "acme/build"
                         /\ x.recommendations.version[1] = ref)

\* C15 as stated: a third-party reference whose ref is a 40-hex identifier
\* produces no unpinned-action insight whatever else its line or the text
\* contains, and the same reference with @v1 produces exactly one Security
\* insight of severity medium and confidence 90.
C15_PinnedNeverFlagged ==
    \A i \in Returned :
        AllHaveContent =>
           /\ \A k \in 1..Len(OfRule(InsightsOf(i), "unpinned-action")) :
                 OfRule(InsightsOf(i), "unpinned-action")[k].recommendations.version[1] # Sha
           /\ Len(FlaggedRefs(i, "v1"))
                = LinesWithIn(ContextWorkflows, << "acme/build", "@", "v1" >>)
           /\ \A k \in 1..Len(FlaggedRefs(i, "v1")) :
                 /\ FlaggedRefs(i, "v1")[k].category = "Security"
                 /\ FlaggedRefs(i, "v1")[k].severity = "medium"
                 /\ FlaggedRefs(i, "v1")[k].confidence = 90

\* some token of the document contains the text
Mentions(content, text) ==
    \E i \in 1..Len(content) : \E k \in 1..Len(content[i]) : TokenIncludes(content[i][k], text)

\* the workflows of the context whose text has an install command and no
\* actions/cache reference
LackingCache ==
    SelectSeq(ContextWorkflows,
              LAMBDA w : /\ Mentions(w.content, "npm ci") \/ Mentions(w.content, "npm install")
                         /\ ~Mentions(w.content, "actions/cache"))

\* C16: the missing-cache rule emits exactly one Efficiency insight of
\* severity medium and confidence 80 for a workflow text that contains
\* `npm ci` or `npm install` and no `actions/cache`, and none for a text with
\* an `actions/cache` reference or without an install command.
C16_MissingCache ==
    \A i \in Returned :
        AllHaveContent =>
            LET emitted == OfRule(InsightsOf(i), "missing-cache") IN
            /\ Len(emitted) = Len(LackingCache)
            /\ \A k \in 1..Len(emitted) :
                  /\ emitted[k].id.workflow = LackingCache[k].name
                  /\ emitted[k].category = "Efficiency"
                  /\ emitted[k].severity = "medium"
                  /\ emitted[k].confidence = 80

\* a second run on a two-line text with `npm install` and without `npm ci`
\* that emitted the insight
C16_Witness ==
    /\ Returned = { 1, 2 }
    /\ Len(ContextWorkflows) = 1
    /\ Mentions(ContextWorkflows[1].content, "npm install")
    /\ ~Mentions(ContextWorkflows[1].content, "npm ci")
    /\ Len(ContextWorkflows[1].content) = 2
    /\ Len(OfRule(InsightsOf(2), "missing-cache")) = 1

\* the number of step lines of a document
StepLines(content) ==
    Cardinality({ i \in 1..Len(content) : \E k \in 1..Len(content[i]) : content[i][k] = "- name:" })

\* the workflows of the context with more than 20 step lines
LongWorkflows == SelectSeq(ContextWorkflows, LAMBDA w : StepLines(w.content) > 20)

\* C17: for a workflow text with n step-name markers the excessive-steps
\* rule emits exactly one Efficiency insight when n > 20, whose summary,
\* explanation and evidence state n, and none when n <= 20.
C17_ExcessiveSteps ==
    \A i \in Returned :
        AllHaveContent =>
            LET emitted == OfRule(InsightsOf(i), "excessive-steps") IN
            /\ Len(emitted) = Len(LongWorkflows)
            /\ \A k \in 1..Len(emitted) :
                  LET n == StepLines(LongWorkflows[k].content) IN
                  /\ emitted[k].id.workflow = LongWorkflows[k].name
                  /\ emitted[k].category = "Efficiency"
                  /\ emitted[k].summary.n = n
                  /\ emitted[k].explanation[1].n = n
                  /\ emitted[k].evidence[1].n = n

\* a text with 21 step lines, for which the insight states 21
C17_Witness ==
    /\ Returned # { }
    /\ Len(ContextWorkflows) = 1
    /\ StepLines(ContextWorkflows[1].content) = 21
    /\ Len(OfRule(InsightsOf(1), "excessive-steps")) = 1
    /\ OfRule(InsightsOf(1), "excessive-steps")[1].summary.n = 21

\* the category, severity and confidence the specification fixes per rule
FixedForRule(rule) ==
    CASE rule = "unpinned-action"              -> << "Security", "medium", 90 >>
      [] rule = "overly-permissive-token"      -> << "Security", "high", 95 >>
      [] rule = "script-injection"             -> << "Security", "high", 85 >>
      [] rule = "missing-cache"                -> << "Efficiency", "medium", 80 >>
      [] rule = "inefficient-checkout"         -> << "Efficiency", "low", 85 >>
      [] rule = "excessive-steps"              -> << "Efficiency", "low", 70 >>
      [] rule = "deprecated-node"              -> << "Maintenance", "medium", 95 >>
      [] rule = "deprecated-workflow-commands" -> << "Maintenance", "medium", 95 >>
      [] rule = "deprecated-action"            -> << "Maintenance", "low", 90 >>
      [] OTHER                                 -> << "", "", 0 >>

\* the workflows of the context whose text has `permissions:` and `write-all`
WriteAllWorkflows ==
    SelectSeq(ContextWorkflows,
              LAMBDA w : Mentions(w.content, "permissions:") /\ Mentions(w.content, "write-all"))

\* C18: every insight the analyzer emits carries the category, severity and
\* confidence fixed for its rule, whatever the document; the write-all rule
\* yields exactly one insight per document that contains `permissions:` and
\* `write-all`; every confidence is an integer in 0..100, every severity and
\* level a value of its enumeration.
C18_FixedPerRule ==
    \A i \in Returned :
        /\ \A k \in 1..Len(InsightsOf(i)) :
              LET x == InsightsOf(i)[k] IN
              /\ << x.category, x.severity, x.confidence >> = FixedForRule(x.id.rule)
              /\ x.confidence \in 0..100
              /\ x.severity \in Severities
              /\ x.level \in Levels
        /\ AllHaveContent =>
              Len(OfRule(InsightsOf(i), "overly-permissive-token")) = Len(WriteAllWorkflows)

\* a run that emitted the write-all insight next to insights of other rules
C18_Witness ==
    /\ Returned # { }
    /\ Len(WriteAllWorkflows) = 1
    /\ Len(InsightsOf(1)) >= 2
    /\ \E k \in 1..Len(InsightsOf(1)) :
          /\ InsightsOf(1)[k].id.rule = "overly-permissive-token"
          /\ InsightsOf(1)[k].severity = "high"
          /\ InsightsOf(1)[k].confidence = 95

\* ------------------------------------------------------------------------
\* AnalysisController: the six POST endpoints
\* ------------------------------------------------------------------------

Endpoints ==
    { "analyze", "analyzePreBuild", "analyzePostBuild", "analyzeBuildLog",
      "analyzePreTest", "analyzePostTest" }

\* the field an endpoint validates besides timestamp, "" for none
RequiredField(endpoint) ==
    CASE endpoint = "analyzePreBuild"  -> "task"
      [] endpoint = "analyzePostBuild" -> "task"
      [] endpoint = "analyzeBuildLog"  -> "buildLog"
      [] endpoint = "analyzePreTest"   -> "testRun"
      [] endpoint = "analyzePostTest"  -> "testRunResults"
      [] OTHER                         -> ""

\* the message of an endpoint's 400 answer
InvalidMessage(endpoint) ==
    CASE endpoint = "analyzePreBuild"  -> "Invalid pre-build context"
      [] endpoint = "analyzePostBuild" -> "Invalid post-build context"
      [] endpoint = "analyzeBuildLog"  -> "Invalid build log context"
      [] endpoint = "analyzePreTest"   -> "Invalid pre-test context"
      [] endpoint = "analyzePostTest"  -> "Invalid post-test context"
      [] OTHER                         -> "Invalid analysis context"

\* the eventType an endpoint gives a context that has none
DefaultEventType(endpoint) ==
    CASE endpoint = "analyzePreBuild"  -> "taskStart"
      [] endpoint = "analyzePostBuild" -> "taskEnd"
      [] endpoint = "analyzeBuildLog"  -> "buildLogAnalysis"
      [] endpoint = "analyzePreTest"   -> "testRunStart"
      [] OTHER                         -> "testRunEnd"

\* the options an endpoint passes to orchestrationService.analyze; the
\* analyze endpoint passes none
EndpointOptions(endpoint) ==
    CASE endpoint = "analyzePreBuild"  ->
            [agentIds |-> << "codeImpact", "githubActions", "defectPredictor" >>]
      [] endpoint = "analyzePostBuild" -> [agentIds |-> << "githubActions", "rootCause" >>]
      [] endpoint = "analyzeBuildLog"  -> [agentIds |-> << "githubActions", "rootCause" >>]
      [] endpoint = "analyzePreTest"   -> [agentIds |-> << "testRelevance" >>]
      [] endpoint = "analyzePostTest"  -> [agentIds |-> << "testRelevance", "rootCause" >>]
      [] OTHER                         -> NullValue

\* !body[field] is false: the field is there and is neither null nor ''
Truthy(body, field) ==
    /\ Has(body, field)
    /\ ~IsNull(body[field])
    /\ body[field] # Str("")

\* a handler from its first statement to the await or to the answer.  The
\* analyze endpoint reads context.eventType for its log line before it
\* validates, which raises a TypeError for a missing body; the catch block
\* answers 500 with the error's message.
Handle ==
    /\ httpPc = "received"
    /\ LET endpoint == request.endpoint
           body == request.body
           required == RequiredField(endpoint)
       IN  IF endpoint = "analyze" /\ IsNull(body)
           THEN /\ response' = [status |-> 500, success |-> FALSE, error |-> "TypeError"]
                /\ httpPc' = "responded"
                /\ UNCHANGED << request, coreCalls >>
           ELSE IF \/ IsNull(body)
                   \/ ~Truthy(body, "timestamp")
                   \/ required # "" /\ ~Truthy(body, required)
           THEN /\ response' = [status |-> 400, success |-> FALSE,
                                error |-> InvalidMessage(endpoint)]
                /\ httpPc' = "responded"
                /\ UNCHANGED << request, coreCalls >>
           ELSE LET ctx == IF endpoint # "analyze" /\ ~Truthy(body, "eventType")
                           THEN [f \in DOMAIN body \cup { "eventType" } |->
                                    IF f = "eventType" THEN Str(DefaultEventType(endpoint))
                                    ELSE body[f]]
                           ELSE body
                IN  /\ request' = [request EXCEPT !.body = ctx]
                    /\ coreCalls' = Append(coreCalls,
                                       [context |-> ctx, options |-> EndpointOptions(endpoint)])
                    /\ httpPc' = "awaiting"
                    /\ UNCHANGED response
    /\ UNCHANGED << orchVars, callVars, agentVars, listenerVars >>

\* results.flatMap(result => result.insights)
RECURSIVE FlatInsights(_)
FlatInsights(rs) ==
    IF rs = << >> THEN << >> ELSE Head(rs).insights \o FlatInsights(Tail(rs))

\* orchestrationService.analyze resolved: the answer is 200 with the insights
CoreResolves(rs) ==
    /\ httpPc = "awaiting"
    /\ response' = [status |-> 200, success |-> TRUE, insights |-> FlatInsights(rs)]
    /\ httpPc' = "responded"
    /\ UNCHANGED << request, coreCalls >>
    /\ UNCHANGED << orchVars, callVars, agentVars, listenerVars >>

\* orchestrationService.analyze rejected with an Error: the answer is 500
\* with error.message || 'Internal server error'
CoreRejects(message) ==
    /\ httpPc = "awaiting"
    /\ response' = [status |-> 500, success |-> FALSE,
                    error |-> IF message = "" THEN "Internal server error" ELSE message]
    /\ httpPc' = "responded"
    /\ UNCHANGED << request, coreCalls >>
    /\ UNCHANGED << orchVars, callVars, agentVars, listenerVars >>

\* request bodies: none, and contexts with and without the validated fields
Bodies ==
    { NullValue,
      [source |-> Str("vscode")],
      [timestamp |-> Str("")],
      [timestamp |-> NullValue, task |-> Str("build")],
      [timestamp |-> Str("t1")],
      [task |-> Str("build")],
      [timestamp |-> Str("t1"), task |-> Str("build")],
      [timestamp |-> Str("t1"), task |-> NullValue],
      [timestamp |-> Str("t1"), task |-> Str("build"), eventType |-> Str("custom")],
      [timestamp |-> Str("t1"), buildLog |-> Str("log")],
      [timestamp |-> Str("t1"), buildLog |-> Str("")],
      [timestamp |-> Str("t1"), testRun |-> Str("run")],
      [timestamp |-> Str("t1"), testRunResults |-> Str("results")],
      [timestamp |-> Str("t1"), task |-> Str("build"), buildLog |-> Str("log"),
       testRun |-> Str("run"), testRunResults |-> Str("results")] }

\* what orchestrationService.analyze can resolve with
CoreResults ==
    { << >>,
      << [agentName |-> OwnName(GitHubActions), insights |-> << Permissive, MissingCache >>],
         [agentName |-> ConstructorName(CodeImpact), insights |-> << >>, error |-> Str("boom")] >> }

InitController ==
    /\ InitOrchestrator
    /\ NoCall
    /\ NoRun
    /\ httpPc = "received"
    /\ request \in [endpoint : Endpoints, body : Bodies]
    /\ response = NullValue
    /\ coreCalls = << >>
    /\ NoListeners

NextController ==
    \/ Handle
    \/ \E rs \in CoreResults : CoreResolves(rs)
    \/ \E message \in { "boom", "" } : CoreRejects(message)

SpecController == InitController /\ [][NextController]_vars

\* the request lacks a body, the timestamp or the endpoint's required field
LacksRequired ==
    \/ IsNull(request.body)
    \/ ~Has(request.body, "timestamp")
    \/ /\ RequiredField(request.endpoint) # ""
       /\ ~Has(request.body, RequiredField(request.endpoint))

C20_FallbackCarriesFailure ==
    \A i \in 1..Len(analysisPromises) :
        LET p == analysisPromises[i] IN
        /\ p.state # "rejected"
        /\ (p.state = "fulfilled" /\ Has(p.value, "error")) =>
              /\ p.value.insights = << >>
              /\ p.value.agentName = ConstructorName(agentsToUse[i])
              /\ ~IsNull(p.value.error)
              /\ p.value.error = Str("boom")

\* ------------------------------------------------------------------------
\* Invocations of a pass
\* ------------------------------------------------------------------------

\* promise i of a pass is the one invocation of agentsToUse[i].analyze
\* (engine.ts 324-325): the map calls analyze once per entry of agentsToUse
\* and nothing of the pass calls it again

\* C21 as stated: in a pass every selected analyzer has analyze invoked
\* exactly once, also when it fails: no analyzer is invoked twice, none is
\* left out, and a finished pass has one result per selected analyzer.
C21_InvokedOnce ==
    pc # "idle" =>
        /\ Len(analysisPromises) = Len(agentsToUse)
        /\ \A i, j \in 1..Len(agentsToUse) : agentsToUse[i] = agentsToUse[j] => i = j
        /\ pc = "done" => Len(results) = Len(agentsToUse)

\* the explanation as it is when the confidence step is reached: the
\* returned explanation without the paragraph that step generates
BuiltSoFar(explanation) ==
    SelectSeq(explanation, LAMBDA p : p.kind # "confidence")

\* the pass appended a confidence paragraph
GotConfidence(before, after) ==
    \E j \in Len(before) + 1..Len(after) : after[j].kind = "confidence"

\* C22 as stated: the "Confidence:" paragraph is appended if and only if
\* the confidence is above 90 and the explanation built so far does not
\* contain "Confidence:".
C22_ConfidenceIff ==
    callPc = "returned" =>
        \A i \in 1..Len(givenInsights) :
            GotConfidence(givenInsights[i].explanation, enhancedInsights[i].explanation)
              <=> /\ givenInsights[i].confidence > 90
                  /\ ~Includes(BuiltSoFar(enhancedInsights[i].explanation), "Confidence:")

\* C22 amended: when the enrichment of an insight raises no exception, the
\* "Confidence:" paragraph is appended, once and last, if and only if the
\* confidence is above 90 and the explanation built so far does not contain
\* "Confidence:"; when it raises, no paragraph is appended.  An insight of
\* confidence 90 or less never receives the paragraph.
C22_ConfidenceIffUnlessRaised ==
    callPc = "returned" =>
        \A i \in 1..Len(givenInsights) :
            LET given == givenInsights[i].explanation
                after == enhancedInsights[i].explanation
            IN  /\ GotConfidence(given, after)
                     <=> /\ ~Raises(givenInsights[i])
                         /\ givenInsights[i].confidence > 90
                         /\ ~Includes(BuiltSoFar(after), "Confidence:")
                /\ GotConfidence(given, after) =>
                     /\ after[Len(after)] = generateConfidenceExplanation(givenInsights[i])
                     /\ Count(after, "Confidence:") = 1
                /\ givenInsights[i].confidence <= 90 => ~GotConfidence(given, after)

\* an insight of confidence 90 enriched without the paragraph next to one of
\* confidence 95 that received it
C22_Witness ==
    /\ callPc = "returned"
    /\ Len(givenInsights) = 2
    /\ givenInsights[1].confidence = 90 /\ ~Raises(givenInsights[1])
    /\ Len(enhancedInsights[1].explanation) > Len(givenInsights[1].explanation)
    /\ ~GotConfidence(givenInsights[1].explanation, enhancedInsights[1].explanation)
    /\ givenInsights[2].confidence = 95
    /\ GotConfidence(givenInsights[2].explanation, enhancedInsights[2].explanation)

\* the branch sentences among some paragraphs
BranchSentences(paragraphs) ==
    SelectSeq(paragraphs, LAMBDA p : p.kind = "branch")

\* the case the priority main/master, feature, release gives each branch
\* name of the contexts
FirstMatchingCase(branch) ==
    CASE branch = "main"              -> "main"
      [] branch = "master"            -> "main"
      [] branch = "feature/login"     -> "feature"
      [] branch = "feature/release-1" -> "feature"
      [] branch = "hotfix-feature"    -> "feature"
      [] branch = "release/1.0"       -> "release"
      [] OTHER                         -> "none"

\* the branch name of the context of the call, "" when the context has no
\* available git information or no branch name
BranchName ==
    IF /\ ~IsNull(callContext) /\ Has(callContext, "git") /\ callContext.git.available
       /\ Has(callContext.git, "branch") /\ Has(callContext.git.branch, "str")
    THEN callContext.git.branch.str
    ELSE ""

\* C23: enrichment appends at most one branch sentence, and a sentence it
\* appends is that of the first case, in the order main/master, feature,
\* release, that the branch name matches; a name matching no case receives
\* none, and a name matching one receives the sentence whenever the
\* enrichment raises no exception.
C23_FirstMatchingCase ==
    callPc = "returned" =>
        \A i \in 1..Len(givenInsights) :
            LET sentences == BranchSentences(Appended(givenInsights[i].explanation,
                                                      enhancedInsights[i].explanation))
                case == FirstMatchingCase(BranchName)
            IN  /\ Len(sentences) <= 1
                /\ \A j \in 1..Len(sentences) :
                      sentences[j] = Para("branch", case, BranchName, 0)
                /\ case = "none" => sentences = << >>
                /\ (case # "none" /\ ~Raises(givenInsights[i])) => Len(sentences) = 1

\* an insight enriched on the branch feature/release-1, which matches the
\* feature and the release case, with the feature sentence alone
C23_Witness ==
    /\ callPc = "returned"
    /\ BranchName = "feature/release-1"
    /\ StrIncludes(BranchName, "release") /\ StrIncludes(BranchName, "feature")
    /\ Len(givenInsights) >= 1
    /\ BranchSentences(Appended(givenInsights[1].explanation, enhancedInsights[1].explanation))
         = << Para("branch", "feature", "feature/release-1", 0) >>

\* the step of enhanceInsight that appends a paragraph of this kind:
\* 1 the category method (severity and keyword paragraphs), 2 the
\* contextual relevance (project, branch, level), 3 impact, 4 confidence
StepOf(kind) ==
    CASE kind \in { "severity" } \cup KeywordKinds     -> 1
      [] kind \in { "project", "branch", "level" }     -> 2
      [] kind = "impact"                               -> 3
      [] kind = "confidence"                           -> 4
      [] OTHER                                         -> 0

\* C24: the original explanation is a prefix of the enriched explanation,
\* and the appended paragraphs come in the order category/severity
\* paragraphs, contextual-relevance sentences, impact paragraph, confidence
\* paragraph: no paragraph of a later step precedes one of an earlier step,
\* the severity paragraph precedes the keyword paragraph, project precedes
\* branch precedes level, and the impact and confidence steps append at most
\* one paragraph each.
C24_AppendOnlyInOrder ==
    callPc = "returned" =>
        \A i \in 1..Len(givenInsights) :
            LET given == givenInsights[i].explanation
                after == enhancedInsights[i].explanation
                added == Appended(given, after)
                Rank(kind) == CASE kind = "severity" -> 1
                                [] kind \in KeywordKinds -> 2
                                [] kind = "project" -> 3
                                [] kind = "branch" -> 4
                                [] kind = "level" -> 5
                                [] kind = "impact" -> 6
                                [] kind = "confidence" -> 7
                                [] OTHER -> 0
            IN  /\ IsPrefix(given, after)
                /\ \A j \in 1..Len(added) : StepOf(added[j].kind) \in 1..4
                /\ \A j, k \in 1..Len(added) :
                      j < k => /\ StepOf(added[j].kind) <= StepOf(added[k].kind)
                               /\ Rank(added[j].kind) < Rank(added[k].kind)

\* an insight enriched by all four steps: a severity and a keyword
\* paragraph, project, branch and level sentences, impact and confidence
C24_Witness ==
    /\ callPc = "returned"
    /\ Len(givenInsights) >= 1
    /\ LET added == Appended(givenInsights[1].explanation, enhancedInsights[1].explanation)
       IN  /\ Len(added) = 7
           /\ [j \in 1..7 |-> StepOf(added[j].kind)] = << 1, 1, 2, 2, 2, 3, 4 >>
           /\ IsPrefix(givenInsights[1].explanation, enhancedInsights[1].explanation)

\* the number of the first line of a document that includes the text, 1
\* when no single line does
Located(content, needle) ==
    LET with == { i \in 1..Len(content) : LineIncludes(content[i], needle) } IN
    IF with = {} THEN 1 ELSE CHOOSE i \in with : \A j \in with : i <= j

\* the first line that includes one of the four event expressions the
\* script-injection rule matches
InjectionLine(content) ==
    LET with == { i \in 1..Len(content) :
                    \E e \in { "${{ github.event.issue.title }}",
                               "${{ github.event.issue.body }}",
                               "${{ github.event.pull_request.title }}",
                               "${{ github.event.pull_request.body }}" } :
                        LineIncludes(content[i], << e >>) } IN
    IF with = {} THEN 1 ELSE CHOOSE i \in with : \A j \in with : i <= j

\* the version as the document quotes it
Quoted(nodeVersion) ==
    CASE nodeVersion = "8"  -> "'8'"
      [] nodeVersion = "12" -> "'12'"
      [] nodeVersion = "16" -> "\"16\""
      [] OTHER -> ""

\* the line the text matched by the insight's rule is first found on: for
\* the two rules with alternatives, the line of the first alternative when
\* the document has it and of the second otherwise; the excessive-steps
\* rule matches the document as a whole
MatchedLine(content, x) ==
    LET rule == x.id.rule IN
    CASE rule = "unpinned-action" ->
           Located(content, x.id.fact \o << "@" >> \o x.recommendations.version)
      [] rule = "overly-permissive-token" -> Located(content, << "write-all" >>)
      [] rule = "script-injection" -> InjectionLine(content)
      [] rule = "missing-cache" ->
           IF Mentions(content, "npm ci") THEN Located(content, << "npm ci" >>)
           ELSE Located(content, << "npm install" >>)
      [] rule = "inefficient-checkout" -> Located(content, << "fetch-depth: 0" >>)
      [] rule = "deprecated-node" ->
           Located(content, << "node-version:", " ", Quoted(x.id.fact[1]) >>)
      [] rule = "deprecated-workflow-commands" ->
           IF Mentions(content, "::set-output") THEN Located(content, << "::set-output" >>)
           ELSE Located(content, << "::set-env" >>)
      [] rule = "deprecated-action" -> Located(content, x.id.fact)
      [] OTHER -> 1

\* C25 as stated, for the contexts of one workflow document: the location
\* line of every insight is the number of the first line that contains the
\* text its rule matched, 1 when no single line contains it, and lies
\* between 1 and the number of lines of the document.
C25_LineOfMatchedText ==
    \A i \in Returned :
        (Len(ContextWorkflows) = 1 /\ AllHaveContent) =>
            \A k \in 1..Len(InsightsOf(i)) :
                LET x == InsightsOf(i)[k]
                    content == ContextWorkflows[1].content
                IN  /\ x.location.line \in 1..Len(content)
                    /\ x.location.line = MatchedLine(content, x)

\* C26 as stated: the agentName of the result an analyzer's promise settles
\* with is the same string whether its analyze succeeded, and the analyzer
\* named itself, or failed, and the orchestrator's fallback named it: it is
\* the name the analyzer gives itself.
C26_StableAgentName ==
    \A i \in 1..Len(analysisPromises) :
        analysisPromises[i].state = "fulfilled" =>
            analysisPromises[i].value.agentName = OwnName(agentsToUse[i])

\* a step that changes the registry
RegistryStep == agents' # agents

\* the ids of the registry as a set
RegisteredIds(m) == { m[i].id : i \in 1..Len(m) }

\* C27: once a pass has started, no step, and so no registerAgent or
\* removeAgent that interleaves with it, changes the analyzers it selected
\* or the number of its promises, and its results are those of the selected
\* analyzers in their order; a pass that starts selects from the registry as
\* the calls made before it left it; getRegisteredAgents lists, without
\* repetition, the ids registered and not since removed: registerAgent adds
\* its id, removeAgent takes its id away, and neither they nor a step of a
\* pass touch another id.
C27_SelectionFixedAtStart ==
    /\ [][pc # "idle" =>
            /\ agentsToUse' = agentsToUse
            /\ Len(analysisPromises') = Len(analysisPromises)
            /\ pc' = "done" =>
                  /\ Len(results') = Len(agentsToUse)
                  /\ \A i \in 1..Len(results') :
                        results'[i].agentName
                          \in { OwnName(agentsToUse[i]), ConstructorName(agentsToUse[i]) }]_vars
    /\ [][SelectionStep =>
            /\ agents' = agents
            /\ agentsToUse' = SelectAgents(agents, options')
            /\ \A i \in 1..Len(agentsToUse') :
                  \E k \in 1..Len(agents) : agents[k].agent = agentsToUse'[i]]_vars
    /\ [][\A r \in Registrations :
            /\ registerAgent(r[1], r[2]) =>
                  /\ RegisteredIds(agents') = RegisteredIds(agents) \cup { r[1] }
                  /\ MapGet(agents', r[1]) = r[2]
            /\ removeAgent(r[1]) =>
                  RegisteredIds(agents') = RegisteredIds(agents) \ { r[1] }]_vars
    /\ [][RegistryStep =>
            \E r \in Registrations : registerAgent(r[1], r[2]) \/ removeAgent(r[1])]_vars
    /\ [](/\ Range(getRegisteredAgents) = RegisteredIds(agents)
          /\ Len(getRegisteredAgents) = Cardinality(RegisteredIds(agents)))

\* a pass awaiting two analyzers, one of them settled, while the registry
\* has been emptied since it started
C27_Witness ==
    /\ pc = "awaiting"
    /\ Len(agentsToUse) = 2
    /\ Len(analysisPromises) = 2
    /\ analysisPromises[1].state = "fulfilled"
    /\ analysisPromises[2].state = "pending"
    /\ getRegisteredAgents = << >>

\* C28 as stated: within the result of one analyze call no two insights
\* share an id.
C28_UniqueIds ==
    \A i \in Returned :
        AllHaveContent =>
            \A j, k \in 1..Len(InsightsOf(i)) :
                InsightsOf(i)[j].id = InsightsOf(i)[k].id => j = k

\* ------------------------------------------------------------------------
\* CodeChangeListener (client/src/ui/views/treeViews.ts 805-968): the
\* debounced analysis of edits.  A timer is [id, due]; setTimeout calls back
\* when its delay has passed, so time does not pass a pending timer's due
\* time without the timer firing.
\* ------------------------------------------------------------------------

\* private debounceDelay = 2000; // ms
debounceDelay == 2000

\* clearTimeout(handle): a no-op on a timer that fired or was cleared
ClearTimeout(pending, handle) == { t \in pending : t.id # handle }

\* onDocumentChanged (854-884) for a document that isSupportedFileType
\* accepts or not
onDocumentChanged(supported) ==
    /\ ~editDisposed
    /\ Len(changes) < MaxChanges
    /\ changes' = Append(changes, [at |-> time, supported |-> supported])
    /\ IF supported
       THEN LET handle == Len(changes) + 1 IN
            /\ timers' = ClearTimeout(timers, debounceTimer)
                           \cup { [id |-> handle, due |-> time + debounceDelay] }
            /\ debounceTimer' = handle
       ELSE UNCHANGED << timers, debounceTimer >>
    /\ UNCHANGED << time, editCallbacks, editDisposed >>
    /\ UNCHANGED << orchVars, callVars, agentVars, httpVars, branchVars >>

\* time passes, up to the next due time
TimePasses(d) ==
    /\ timers # {}
    /\ \A t \in timers : time + d <= t.due
    /\ time' = time + d
    /\ UNCHANGED << debounceTimer, timers, editCallbacks, editDisposed, changes >>
    /\ UNCHANGED << orchVars, callVars, agentVars, httpVars, branchVars >>

\* a timer fires: the callback (867-883) runs to its first await,
\* contextAggregator.gatherContext; this.debounceTimer keeps the handle
TimerFires ==
    /\ \E t \in timers :
          /\ t.due <= time
          /\ timers' = timers \ { t }
          /\ editCallbacks' = Append(editCallbacks,
                                [timer |-> t.id, firedAt |-> time, pc |-> "gathering"])
    /\ UNCHANGED << time, debounceTimer, editDisposed, changes >>
    /\ UNCHANGED << orchVars, callVars, agentVars, httpVars, branchVars >>

\* gatherContext settles: the callback calls apiClient.requestAnalysis, or
\* its catch block logs the error
GatherContextSettles(i, resolved) ==
    /\ i \in 1..Len(editCallbacks)
    /\ editCallbacks[i].pc = "gathering"
    /\ editCallbacks' =
          [editCallbacks EXCEPT ![i] =
              IF resolved
              THEN [timer |-> @.timer, firedAt |-> @.firedAt, pc |-> "requesting",
                    requestedAt |-> time, disposed |-> editDisposed]
              ELSE [@ EXCEPT !.pc = "failed"]]
    /\ UNCHANGED << time, debounceTimer, timers, editDisposed, changes >>
    /\ UNCHANGED << orchVars, callVars, agentVars, httpVars, branchVars >>

\* requestAnalysis settles: the notification is shown, or the error logged
RequestAnalysisSettles(i, resolved) ==
    /\ i \in 1..Len(editCallbacks)
    /\ editCallbacks[i].pc = "requesting"
    /\ editCallbacks' =
          [editCallbacks EXCEPT ![i].pc = IF resolved THEN "notified" ELSE "failed"]
    /\ UNCHANGED << time, debounceTimer, timers, editDisposed, changes >>
    /\ UNCHANGED << orchVars, callVars, agentVars, httpVars, branchVars >>

\* dispose (956-967): the subscriptions end and a pending timer is cleared
disposeCodeChangeListener ==
    /\ ~editDisposed
    /\ editDisposed' = TRUE
    /\ IF debounceTimer # 0
       THEN timers' = ClearTimeout(timers, debounceTimer) /\ debounceTimer' = 0
       ELSE UNCHANGED << timers, debounceTimer >>
    /\ UNCHANGED << time, editCallbacks, changes >>
    /\ UNCHANGED << orchVars, callVars, agentVars, httpVars, branchVars >>

InitCodeChange == Init

NextCodeChange ==
    \/ \E supported \in BOOLEAN : onDocumentChanged(supported)
    \/ \E d \in { debounceDelay \div 2, debounceDelay } : TimePasses(d)
    \/ TimerFires
    \/ \E i \in 1..MaxChanges, resolved \in BOOLEAN : GatherContextSettles(i, resolved)
    \/ \E i \in 1..MaxChanges, resolved \in BOOLEAN : RequestAnalysisSettles(i, resolved)
    \/ disposeCodeChangeListener

SpecCodeChange == InitCodeChange /\ [][NextCodeChange]_vars

\* the edit analyses requested so far
EditRequests ==
    SelectSeq(editCallbacks, LAMBDA c : Has(c, "requestedAt"))

\* the callback belongs to the supported change event k, the last of its
\* burst: its timer is the one that event set, and no supported event came
\* between that event and the firing
EndsBurst(c, k) ==
    /\ changes[k].supported
    /\ c.timer = k
    /\ \A j \in (k + 1)..Len(changes) : changes[j].supported => changes[j].at >= c.firedAt

\* C29 as stated: at most one timer is pending at any time; a callback runs
\* for the last event of a burst only, debounceDelay after it, and once;
\* and no edit analysis is requested once dispose has been called.
C29_Debounced ==
    /\ Cardinality(timers) <= 1
    /\ \A i \in 1..Len(editCallbacks) :
          /\ \E k \in 1..Len(changes) :
                /\ EndsBurst(editCallbacks[i], k)
                /\ editCallbacks[i].firedAt = changes[k].at + debounceDelay
          /\ \A j \in 1..Len(editCallbacks) :
                editCallbacks[j].timer = editCallbacks[i].timer => i = j
    /\ editDisposed => timers = {}
    /\ \A i \in 1..Len(EditRequests) : ~EditRequests[i].disposed

\* ------------------------------------------------------------------------
\* BranchOperationListener (client/src/ui/views/treeViews.ts 593-798).
\* head is the branch of the repository in the first workspace folder and
\* null when no folder is open.  An entry of handlers is one run of an event
\* handler: the branch it recorded at its start and where it is.
\* ------------------------------------------------------------------------

Branches == { "main", "dev" }
Heads == { Str(b) : b \in Branches }

\* updateCurrentBranch (700-722) up to its await: without a workspace folder
\* it sets currentBranch to null and returns; with one it calls
\* getCurrentBranch (utils/git.ts), which runs git
StartsReading == head # NullValue

\* previousBranch !== null && newBranch !== null && previousBranch !== newBranch
BranchHasChanged(previousBranch, newBranch) ==
    /\ previousBranch # NullValue
    /\ newBranch # NullValue
    /\ previousBranch # newBranch

\* a handler that compares branches, from its first statement to the await
\* inside updateCurrentBranch
StartHandler(kind) ==
    /\ Len(handlers) < MaxHandlers
    /\ IF StartsReading
       THEN /\ handlers' = Append(handlers, [kind |-> kind, previous |-> currentBranch,
                                             pc |-> "reading"])
            /\ UNCHANGED currentBranch
       ELSE /\ handlers' = Append(handlers, [kind |-> kind, previous |-> currentBranch,
                                             pc |-> "done"])
            /\ currentBranch' = NullValue
    /\ UNCHANGED << head, branchRequests, switches >>
    /\ UNCHANGED << orchVars, callVars, agentVars, httpVars, editVars >>

\* onGitChanged (663-671): a watcher on .git/HEAD or .git/refs/heads fired;
\* the watchers exist while a workspace folder is open (623-658)
onGitChanged ==
    /\ head # NullValue
    /\ StartHandler("git")

\* onWindowStateChanged (727-737)
onWindowStateChanged(focused) ==
    IF focused
    THEN StartHandler("focus")
    ELSE /\ Len(handlers) < MaxHandlers
         /\ handlers' = Append(handlers, [kind |-> "blur", previous |-> currentBranch,
                                          pc |-> "done"])
         /\ UNCHANGED << currentBranch, head, branchRequests, switches >>
         /\ UNCHANGED << orchVars, callVars, agentVars, httpVars, editVars >>

\* a handler that is reading when the folders change goes on reading the
\* repository of the folder it started with, whose branch is `repo`
InFormerFolder(handler) ==
    IF handler.pc = "reading" /\ ~Has(handler, "repo")
    THEN [f \in DOMAIN handler \cup { "repo" } |->
             IF f = "repo" THEN head ELSE handler[f]]
    ELSE handler

\* onWorkspaceFoldersChanged (742-751): the first folder is now another
\* repository, or none; currentBranch is reset and read again, unawaited
onWorkspaceFoldersChanged(newHead) ==
    /\ Len(handlers) < MaxHandlers
    /\ newHead # head
    /\ head' = newHead
    /\ currentBranch' = NullValue
    /\ handlers' = Append([i \in 1..Len(handlers) |-> InFormerFolder(handlers[i])],
                          [kind |-> "refresh", previous |-> NullValue,
                           pc |-> IF newHead # NullValue THEN "reading" ELSE "done"])
    /\ UNCHANGED << branchRequests, switches >>
    /\ UNCHANGED << orchVars, callVars, agentVars, httpVars, editVars >>

\* git checkout in the repository: an actual branch switch
GitCheckout(branch) ==
    /\ head # NullValue
    /\ head # Str(branch)
    /\ switches < MaxSwitches
    /\ head' = Str(branch)
    /\ switches' = switches + 1
    /\ UNCHANGED << currentBranch, handlers, branchRequests >>
    /\ UNCHANGED << orchVars, callVars, agentVars, httpVars, editVars >>

\* getCurrentBranch settles, with the branch git reports or with null when
\* git failed; updateCurrentBranch stores and returns it and the handler
\* compares it with the branch it recorded: onBranchChanged (676-695) runs to
\* its await of gatherContext, or the handler ends
ReadSettles(i, succeeded) ==
    /\ i \in 1..Len(handlers)
    /\ handlers[i].pc = "reading"
    /\ LET repo == IF Has(handlers[i], "repo") THEN handlers[i].repo ELSE head
           newBranch == IF succeeded THEN repo ELSE NullValue
       IN
       /\ currentBranch' = newBranch
       /\ handlers' =
             [handlers EXCEPT ![i] =
                 IF @.kind # "refresh" /\ BranchHasChanged(@.previous, newBranch)
                 THEN [kind |-> @.kind, previous |-> @.previous, pc |-> "gathering",
                       new |-> newBranch]
                 ELSE [@ EXCEPT !.pc = "done"]]
    /\ UNCHANGED << head, branchRequests, switches >>
    /\ UNCHANGED << orchVars, callVars, agentVars, httpVars, editVars >>

\* gatherContext settles: apiClient.requestAnalysis is called with the
\* branchChange context, or the catch block logs the error
BranchContextSettles(i, resolved) ==
    /\ i \in 1..Len(handlers)
    /\ handlers[i].pc = "gathering"
    /\ IF resolved
       THEN /\ branchRequests' = Append(branchRequests,
                                   [handler |-> i, previous |-> handlers[i].previous,
                                    new |-> handlers[i].new])
            /\ handlers' = [handlers EXCEPT ![i].pc = "requesting"]
       ELSE /\ handlers' = [handlers EXCEPT ![i].pc = "failed"]
            /\ UNCHANGED branchRequests
    /\ UNCHANGED << currentBranch, head, switches >>
    /\ UNCHANGED << orchVars, callVars, agentVars, httpVars, editVars >>

\* requestAnalysis settles: the notification is shown, or the error logged
BranchRequestSettles(i, resolved) ==
    /\ i \in 1..Len(handlers)
    /\ handlers[i].pc = "requesting"
    /\ handlers' = [handlers EXCEPT ![i].pc = IF resolved THEN "notified" ELSE "failed"]
    /\ UNCHANGED << currentBranch, head, branchRequests, switches >>
    /\ UNCHANGED << orchVars, callVars, agentVars, httpVars, editVars >>

\* the constructor (598-617): currentBranch is null and a first
\* updateCurrentBranch is on its way
InitBranch ==
    /\ InitOrchestrator /\ NoCall /\ NoRun /\ NoRequest
    /\ time = 0 /\ debounceTimer = 0 /\ timers = {} /\ editCallbacks = << >>
    /\ editDisposed = FALSE /\ changes = << >>
    /\ head \in Heads \cup { NullValue }
    /\ currentBranch = NullValue
    /\ handlers = << [kind |-> "refresh", previous |-> NullValue,
                      pc |-> IF head # NullValue THEN "reading" ELSE "done"] >>
    /\ branchRequests = << >>
    /\ switches = 0

NextBranch ==
    \/ onGitChanged
    \/ \E focused \in BOOLEAN : onWindowStateChanged(focused)
    \/ \E newHead \in Heads \cup { NullValue } : onWorkspaceFoldersChanged(newHead)
    \/ \E branch \in Branches : GitCheckout(branch)
    \/ \E i \in 1..MaxHandlers, succeeded \in BOOLEAN : ReadSettles(i, succeeded)
    \/ \E i \in 1..MaxHandlers, resolved \in BOOLEAN : BranchContextSettles(i, resolved)
    \/ \E i \in 1..MaxHandlers, resolved \in BOOLEAN : BranchRequestSettles(i, resolved)

SpecBranch == InitBranch /\ [][NextBranch]_vars

\* C30 as stated: a branch-change analysis is requested only for a recorded
\* and a newly read branch that are both non-null and differ, and at most
\* once per actual branch switch, however the handlers interleave.
C30_OncePerSwitch ==
    /\ \A r \in 1..Len(branchRequests) :
          /\ branchRequests[r].previous # NullValue
          /\ branchRequests[r].new # NullValue
          /\ branchRequests[r].previous # branchRequests[r].new
    /\ Len(branchRequests) <= switches

====
